---------------------------- MODULE Spec2Model ----------------------------
(***************************************************************************)
(* Model of the NLU protocol parser and slot-filling validator.            *)
(*                                                                         *)
(* A Go string is a sequence of one-character strings, so that the         *)
(* separators "##" and "<||>", whitespace trimming, prefix matching and    *)
(* the numeric / JSON conversions are computed character by character, as  *)
(* the library routines the code calls compute them.                       *)
(*                                                                         *)
(* A float64 is the exact decimal [num, scale] standing for num/10^scale   *)
(* (the texts of the model have at most a few digits, where the decimal    *)
(* value and its float64 compare alike against 0.5).                       *)
(***************************************************************************)
EXTENDS Integers, Sequences, FiniteSets, TLC

VARIABLES raw, eres, ires, required, miss, byType, eagain, iagain,
          rin, rres, ragain, env, lookup, lookupAgain, calls, heap,
          systemPrompt, history, loopPc, input, invokes, turn

vars == <<raw, eres, ires, required, miss, byType, eagain, iagain,
          rin, rres, ragain, env, lookup, lookupAgain, calls, heap,
          systemPrompt, history, loopPc, input, invokes, turn>>

\* the state of the parsers and the validator, of the renderers, of the
\* registry, of the calls in flight on several goroutines, of the chat loop
parserVars == <<raw, eres, ires, required, miss, byType, eagain, iagain>>
renderVars == <<rin, rres, ragain>>
registryVars == <<env, lookup, lookupAgain>>
concVars == <<calls, heap>>
chatVars == <<systemPrompt, history, loopPc, input, invokes, turn>>

(***************************************************************************)
(* Bounds of the model.                                                    *)
(***************************************************************************)
\* A raw text is the join with "##" of at most MaxRecords segments.
MaxRecords == 2

(***************************************************************************)
(* Strings.                                                                *)
(***************************************************************************)
RD == <<"#", "#">>
TD == <<"<", "|", "|", ">">>
CD == <<"<", "|", "C", "O", "M", "P", "L", "E", "T", "E", "|", ">">>

TagEntity   == <<"(", "e", "n", "t", "i", "t", "y">>
TagMissing  == <<"(", "m", "i", "s", "s", "i", "n", "g">>
TagLanguage == <<"(", "l", "a", "n", "g", "u", "a", "g", "e">>
TagIntent   == <<"(", "i", "n", "t", "e", "n", "t">>

\* unicode.IsSpace, on the characters of the model's texts
IsSpace(c) == c \in {" ", "\t", "\n", "\r"}

IsDigit(c) == c \in {"0", "1", "2", "3", "4", "5", "6", "7", "8", "9"}

DigitVal(c) ==
    CASE c = "0" -> 0 [] c = "1" -> 1 [] c = "2" -> 2 [] c = "3" -> 3
      [] c = "4" -> 4 [] c = "5" -> 5 [] c = "6" -> 6 [] c = "7" -> 7
      [] c = "8" -> 8 [] c = "9" -> 9

\* s[i:] of Go, with the 1-based position i of the first kept character
From(s, i) == SubSeq(s, i, Len(s))

\* whether p occurs in s at position i
MatchAt(s, i, p) ==
    \/ Len(p) = 0
    \/ /\ i + Len(p) - 1 <= Len(s)
       /\ s[i] = p[1]
       /\ \A k \in 2..Len(p) : s[i + k - 1] = p[k]

\* strings.HasPrefix
HasPrefix(s, p) == MatchAt(s, 1, p)

RECURSIVE IndexFrom(_, _, _)
\* strings.Index on s[from:], as a position of s; 0 when sep does not occur
IndexFrom(s, sep, from) ==
    IF from + Len(sep) - 1 > Len(s) THEN 0
    ELSE IF MatchAt(s, from, sep) THEN from
    ELSE IndexFrom(s, sep, from + 1)

RECURSIVE SplitFrom(_, _, _)
SplitFrom(s, sep, from) ==
    LET i == IndexFrom(s, sep, from)
    IN  IF i = 0 THEN <<From(s, from)>>
        ELSE <<SubSeq(s, from, i - 1)>> \o SplitFrom(s, sep, i + Len(sep))

\* strings.Split with a non-empty separator: leftmost, non-overlapping
\* occurrences; always at least one element
Split(s, sep) == SplitFrom(s, sep, 1)

RECURSIVE SkipSpaceFwd(_, _)
\* position of the first non-space character at or after i, Len(s)+1 if none
SkipSpaceFwd(s, i) ==
    IF i > Len(s) THEN i
    ELSE IF IsSpace(s[i]) THEN SkipSpaceFwd(s, i + 1) ELSE i

RECURSIVE SkipSpaceBack(_, _)
\* position of the last non-space character at or before i, 0 if none
SkipSpaceBack(s, i) ==
    IF i < 1 THEN 0
    ELSE IF IsSpace(s[i]) THEN SkipSpaceBack(s, i - 1) ELSE i

\* strings.TrimSpace
TrimSpace(s) == SubSeq(s, SkipSpaceFwd(s, 1), SkipSpaceBack(s, Len(s)))

RECURSIVE Join(_, _)
\* strings.Join
Join(parts, sep) ==
    IF Len(parts) = 0 THEN <<>>
    ELSE IF Len(parts) = 1 THEN parts[1]
    ELSE parts[1] \o sep \o Join(Tail(parts), sep)

(***************************************************************************)
(* Numbers.                                                                *)
(***************************************************************************)
RECURSIVE DigitsEnd(_, _)
\* position after the run of decimal digits that starts at i
DigitsEnd(s, i) ==
    IF i <= Len(s) /\ IsDigit(s[i]) THEN DigitsEnd(s, i + 1) ELSE i

RECURSIVE DigitsValue(_, _, _, _)
\* value of the digits s[i..j-1] appended to the value acc
DigitsValue(s, i, j, acc) ==
    IF i >= j THEN acc ELSE DigitsValue(s, i + 1, j, 10 * acc + DigitVal(s[i]))

IsSign(c) == c \in {"+", "-"}

\* The int of a build with strconv.IntSize = 32 (GOARCH=386, arm): its
\* largest value, and the decimal digits of 1<<31 - 1 and of 1<<32 - 1.  A
\* build with 64-bit int takes the same branches at 1<<63 - 1 and 1<<64 - 1.
MaxInt == 2147483647
MinInt == 0 - MaxInt - 1
MaxIntDigits == <<"2", "1", "4", "7", "4", "8", "3", "6", "4", "7">>
MaxUintDigits == <<"4", "2", "9", "4", "9", "6", "7", "2", "9", "5">>

RECURSIVE SkipZeros(_, _, _)
\* position of the first digit other than 0 in s[i..j-1], j if there is none
SkipZeros(s, i, j) ==
    IF i < j /\ s[i] = "0" THEN SkipZeros(s, i + 1, j) ELSE i

\* a and b are runs of digits without leading zeros: a is the larger number
DigitsExceed(a, b) ==
    \/ Len(a) > Len(b)
    \/ /\ Len(a) = Len(b)
       /\ \E k \in 1..Len(a) :
             /\ SubSeq(a, 1, k - 1) = SubSeq(b, 1, k - 1)
             /\ DigitVal(a[k]) > DigitVal(b[k])

\* the digits of s[i..j-1] without their leading zeros
Significant(s, i, j) == SubSeq(s, SkipZeros(s, i, j), j - 1)

\* The result of the scan of strconv.ParseInt(s, 10, 0), which runs over an
\* optional sign and the bytes after it: the digits so far exceed 1<<32 - 1
\* ("range": the scan stops there, whatever follows), or a byte is no digit
\* or there is no digit ("syntax"), or the digits do not fit the int
\* ("range"), or they do ("nil").
AtoiError(s, first, last) ==
    IF DigitsExceed(Significant(s, first, last), MaxUintDigits) THEN "range"
    ELSE IF ~(first <= Len(s) /\ last = Len(s) + 1) THEN "syntax"
    ELSE IF s[1] = "-" /\ Significant(s, first, last) = <<"2", "1", "4", "7", "4", "8", "3", "6", "4", "8">>
         THEN "nil"
    ELSE IF DigitsExceed(Significant(s, first, last), MaxIntDigits) THEN "range"
    ELSE "nil"

\* the value that comes with the error
AtoiValue(s, first, last, err) ==
    IF err = "syntax" THEN 0
    ELSE IF err = "range" \/ DigitsExceed(Significant(s, first, last), MaxIntDigits)
         THEN IF s[1] = "-" THEN MinInt ELSE MaxInt
    ELSE IF s[1] = "-" THEN 0 - DigitsValue(s, first, last, 0)
    ELSE DigitsValue(s, first, last, 0)

\* strconv.Atoi with its error dropped (start, _ := strconv.Atoi(f)): the
\* value of an optionally signed run of decimal digits, 0 on a syntax error
\* and the nearest int on a range error
Atoi(s) ==
    LET first == IF Len(s) > 0 /\ IsSign(s[1]) THEN 2 ELSE 1
        last  == DigitsEnd(s, first)
    IN  AtoiValue(s, first, last, AtoiError(s, first, last))

FloatZero == [num |-> 0, scale |-> 0]

RECURSIVE Normalize(_)
\* one value per number: 0.50 and 0.5 are the same float64
Normalize(f) ==
    IF f.scale > 0 /\ f.num % 10 = 0
    THEN Normalize([num |-> f.num \div 10, scale |-> f.scale - 1])
    ELSE f

\* The decimal token that starts at i: [sign][digits][.[digits]]; end is the
\* position after it, ok whether it holds a digit.
DecimalToken(s, i) ==
    LET signed == i <= Len(s) /\ IsSign(s[i])
        a      == IF signed THEN i + 1 ELSE i
        b      == DigitsEnd(s, a)
        dot    == b <= Len(s) /\ s[b] = "."
        c      == IF dot THEN b + 1 ELSE b
        d      == IF dot THEN DigitsEnd(s, c) ELSE b
        mag    == DigitsValue(s, c, d, DigitsValue(s, a, b, 0))
    IN  [end   |-> d,
         ok    |-> (b > a) \/ (d > c),
         value |-> Normalize([num   |-> IF signed /\ s[i] = "-" THEN 0 - mag ELSE mag,
                              scale |-> d - c])]

\* strconv.ParseFloat(s, 64) with its error dropped, on decimal literals: the
\* whole of s has to be the literal, and a syntax error gives 0
ParseFloat(s) ==
    LET t == DecimalToken(s, 1)
    IN  IF t.ok /\ t.end = Len(s) + 1 THEN t.value ELSE FloatZero

RECURSIVE SkipBlanks(_, _)
\* fmt's SkipSpace for Sscanf: blanks are skipped, a newline is an error (0)
SkipBlanks(s, i) ==
    IF i > Len(s) THEN i
    ELSE IF s[i] = "\n" THEN 0
    ELSE IF IsSpace(s[i]) THEN SkipBlanks(s, i + 1)
    ELSE i

\* parseFloat: fmt.Sscanf(s, "%f", &f) with its error dropped. Leading blanks
\* are skipped, the longest numeric token is read and what follows it is
\* ignored; f keeps its zero value when the scan fails.
parseFloat(s) ==
    LET i == SkipBlanks(s, 1)
    IN  IF i = 0 \/ i > Len(s) THEN FloatZero
        ELSE LET t == DecimalToken(s, i)
             IN  IF t.ok THEN t.value ELSE FloatZero

RECURSIVE Pow10(_)
Pow10(n) == IF n = 0 THEN 1 ELSE 10 * Pow10(n - 1)

\* int(f): truncation toward zero
FloatToInt(f) ==
    IF f.num >= 0 THEN f.num \div Pow10(f.scale)
    ELSE 0 - ((0 - f.num) \div Pow10(f.scale))

\* f > 0.5
GreaterThanHalf(f) == 2 * f.num > Pow10(f.scale)

(***************************************************************************)
(* encoding/json, as far as json.Unmarshal(data, &meta) with                *)
(* meta map[string]any goes. A Go map is [nil, kv]: nil tells the nil map   *)
(* from the empty one, kv maps each key to the text of its value.           *)
(***************************************************************************)
EmptyKV == [k \in {} |-> <<>>]

\* make(map[string]any)
MakeMap == [nil |-> FALSE, kv |-> EmptyKV]

\* the zero value of a map type
NilMap == [nil |-> TRUE, kv |-> EmptyKV]

JIsSpace(c) == c \in {" ", "\t", "\r", "\n"}

RECURSIVE JSkip(_, _)
JSkip(s, i) ==
    IF i <= Len(s) /\ JIsSpace(s[i]) THEN JSkip(s, i + 1) ELSE i

RECURSIVE JStringEnd(_, _)
\* position after the closing quote of the string whose content starts at i,
\* 0 when it is not closed or holds a control character or a bad escape
JStringEnd(s, i) ==
    IF i > Len(s) THEN 0
    ELSE IF s[i] = "\"" THEN i + 1
    ELSE IF s[i] \in {"\n", "\t", "\r"} THEN 0
    ELSE IF s[i] = "\\"
         THEN IF i + 1 <= Len(s)
                 /\ s[i + 1] \in {"\"", "\\", "/", "b", "f", "n", "r", "t"}
              THEN JStringEnd(s, i + 2) ELSE 0
    ELSE JStringEnd(s, i + 1)

\* position after the JSON number that starts at i, 0 when there is none
JNumberEnd(s, i) ==
    LET a    == IF i <= Len(s) /\ s[i] = "-" THEN i + 1 ELSE i
        b    == DigitsEnd(s, a)
        intOk == b > a /\ (s[a] # "0" \/ b = a + 1)
        dot  == b <= Len(s) /\ s[b] = "."
        c    == IF dot THEN DigitsEnd(s, b + 1) ELSE b
        fracOk == ~dot \/ c > b + 1
        exp  == c <= Len(s) /\ s[c] \in {"e", "E"}
        d    == IF exp /\ c + 1 <= Len(s) /\ IsSign(s[c + 1]) THEN c + 2 ELSE c + 1
        e    == IF exp THEN DigitsEnd(s, d) ELSE c
        expOk == ~exp \/ e > d
    IN  IF intOk /\ fracOk /\ expOk THEN e ELSE 0

RECURSIVE JValueEnd(_, _)
RECURSIVE JElementsEnd(_, _)
RECURSIVE JMembers(_, _, _)

\* The members of an object from position i (at a key), after the members
\* acc: [end, members], end = 0 on a syntax error.
JMembers(s, i, acc) ==
    IF i > Len(s) \/ s[i] # "\"" THEN [end |-> 0, members |-> acc]
    ELSE LET k == JStringEnd(s, i + 1)
             c == IF k = 0 THEN 0 ELSE JSkip(s, k)
             v == IF c = 0 \/ c > Len(s) \/ s[c] # ":" THEN 0 ELSE JSkip(s, c + 1)
             w == IF v = 0 THEN 0 ELSE JValueEnd(s, v)
             n == IF w = 0 THEN 0 ELSE JSkip(s, w)
         IN  IF n = 0 \/ n > Len(s) THEN [end |-> 0, members |-> acc]
             ELSE LET acc2 == Append(acc, [key |-> SubSeq(s, i + 1, k - 2),
                                           val |-> SubSeq(s, v, w - 1)])
                  IN  IF s[n] = "}" THEN [end |-> n + 1, members |-> acc2]
                      ELSE IF s[n] = "," THEN JMembers(s, JSkip(s, n + 1), acc2)
                      ELSE [end |-> 0, members |-> acc]

\* The object whose "{" is at i.
JObject(s, i) ==
    LET j == JSkip(s, i + 1)
    IN  IF j <= Len(s) /\ s[j] = "}" THEN [end |-> j + 1, members |-> <<>>]
        ELSE JMembers(s, j, <<>>)

\* position after the elements of an array, from position i (at an element)
JElementsEnd(s, i) ==
    LET w == JValueEnd(s, i)
        n == IF w = 0 THEN 0 ELSE JSkip(s, w)
    IN  IF n = 0 \/ n > Len(s) THEN 0
        ELSE IF s[n] = "]" THEN n + 1
        ELSE IF s[n] = "," THEN JElementsEnd(s, JSkip(s, n + 1))
        ELSE 0

\* position after the JSON value that starts at i, 0 on a syntax error
JValueEnd(s, i) ==
    IF i > Len(s) THEN 0
    ELSE IF s[i] = "{" THEN JObject(s, i).end
    ELSE IF s[i] = "["
         THEN LET j == JSkip(s, i + 1)
              IN  IF j <= Len(s) /\ s[j] = "]" THEN j + 1 ELSE JElementsEnd(s, j)
    ELSE IF s[i] = "\"" THEN JStringEnd(s, i + 1)
    ELSE IF s[i] = "-" \/ IsDigit(s[i]) THEN JNumberEnd(s, i)
    ELSE IF MatchAt(s, i, <<"n", "u", "l", "l">>) THEN i + 4
    ELSE IF MatchAt(s, i, <<"t", "r", "u", "e">>) THEN i + 4
    ELSE IF MatchAt(s, i, <<"f", "a", "l", "s", "e">>) THEN i + 5
    ELSE 0

\* checkValid: the whole of data is one JSON value between white space
JValid(data) ==
    LET i == JSkip(data, 1)
        e == JValueEnd(data, i)
    IN  e # 0 /\ JSkip(data, e) = Len(data) + 1

RECURSIVE StoreMembers(_, _)
\* d.object on a map: each member is stored in turn, a repeated key keeps
\* its last value
StoreMembers(kv, members) ==
    IF Len(members) = 0 THEN kv
    ELSE LET m == Head(members)
         IN  StoreMembers([k \in (DOMAIN kv) \cup {m.key} |->
                              IF k = m.key THEN m.val ELSE kv[k]],
                          Tail(members))

\* The map json.Unmarshal(data, &meta) leaves in meta (its error is dropped
\* by the callers). Invalid JSON and a value that is no object leave meta as
\* it was, an object is stored member by member, and the literal null sets
\* the map to nil.
Unmarshal(data, meta) ==
    IF ~JValid(data) THEN meta
    ELSE LET i == JSkip(data, 1)
         IN  IF data[i] = "{"
             THEN [nil |-> FALSE, kv |-> StoreMembers(meta.kv, JObject(data, i).members)]
             ELSE IF data[i] = "n" THEN NilMap
             ELSE meta

(***************************************************************************)
(* The entity-extraction parser.                                           *)
(***************************************************************************)
\* &EntityOutput{}
EmptyEntityOutput == [Entities |-> <<>>, Missing |-> <<>>, Language |-> <<>>]

\* fields[k] of Go (k counts from 0) is in range
InRange(fields, k) == k < Len(fields)

\* fields[k] of Go
Fld(fields, k) == fields[k + 1]

\* The state of a parse loop: the output built so far, and whether an index
\* out of range has aborted the call.
Keep(out) == [out |-> out, panicked |-> FALSE]
Panic(out) == [out |-> out, panicked |-> TRUE]

EntityMinFields == 6
MissingMinFields == 2
LanguageMinFields == 4
IntentMinFields == 5

\* the entity case with the guard len(fields) < 3: a short record is kept,
\* with zero values for the fields it lacks
EntityCaseGuard3(out, fields) ==
    IF Len(fields) < 3 THEN Keep(out)
    ELSE Keep([out EXCEPT !.Entities =
                 Append(@, [Type       |-> Fld(fields, 1),
                            Raw        |-> Fld(fields, 2),
                            Start      |-> IF InRange(fields, 3) THEN Atoi(Fld(fields, 3)) ELSE 0,
                            End        |-> IF InRange(fields, 4) THEN Atoi(Fld(fields, 4)) ELSE 0,
                            Confidence |-> IF InRange(fields, 5)
                                           THEN ParseFloat(Fld(fields, 5)) ELSE FloatZero])])

\* the entity case putting the new entity in front
EntityCasePrepend(out, fields) ==
    IF Len(fields) < 6 THEN Keep(out)
    ELSE IF ~InRange(fields, 5) THEN Panic(out)
    ELSE Keep([out EXCEPT !.Entities =
                 <<[Type       |-> Fld(fields, 1),
                    Raw        |-> Fld(fields, 2),
                    Start      |-> Atoi(Fld(fields, 3)),
                    End        |-> Atoi(Fld(fields, 4)),
                    Confidence |-> ParseFloat(Fld(fields, 5))]>> \o @])

\* the entity case with the guard len(fields) < 5: fields[5] is read from a
\* record of 5 fields
EntityCaseGuard5(out, fields) ==
    IF Len(fields) < 5 THEN Keep(out)
    ELSE IF ~InRange(fields, 5) THEN Panic(out)
    ELSE Keep([out EXCEPT !.Entities =
                 Append(@, [Type       |-> Fld(fields, 1),
                            Raw        |-> Fld(fields, 2),
                            Start      |-> Atoi(Fld(fields, 3)),
                            End        |-> Atoi(Fld(fields, 4)),
                            Confidence |-> ParseFloat(Fld(fields, 5))])])

\* case strings.HasPrefix(fields[0], "(entity")
EntityCase(out, fields) ==
    IF Len(fields) < EntityMinFields THEN Keep(out)
    ELSE IF ~InRange(fields, 5) THEN Panic(out)
    ELSE Keep([out EXCEPT !.Entities =
                 Append(@, [Type       |-> Fld(fields, 1),
                            Raw        |-> Fld(fields, 2),
                            Start      |-> Atoi(Fld(fields, 3)),
                            End        |-> Atoi(Fld(fields, 4)),
                            Confidence |-> ParseFloat(Fld(fields, 5))])])

\* the missing case taking the last field, whichever it is
MissingCaseLastField(out, fields) ==
    Keep([out EXCEPT !.Missing = Append(@, fields[Len(fields)])])

\* case strings.HasPrefix(fields[0], "(missing")
MissingCase(out, fields) ==
    IF Len(fields) < MissingMinFields THEN Keep(out)
    ELSE IF ~InRange(fields, 1) THEN Panic(out)
    ELSE Keep([out EXCEPT !.Missing = Append(@, Fld(fields, 1))])

\* the language case keeping the first code it saw
LanguageCaseFirstWins(out, fields) ==
    IF Len(fields) < 4 THEN Keep(out)
    ELSE IF ~InRange(fields, 1) THEN Panic(out)
    ELSE IF out.Language # <<>> THEN Keep(out)
    ELSE Keep([out EXCEPT !.Language = Fld(fields, 1)])

\* case strings.HasPrefix(fields[0], "(language")
LanguageCase(out, fields) ==
    IF Len(fields) < LanguageMinFields THEN Keep(out)
    ELSE IF ~InRange(fields, 1) THEN Panic(out)
    ELSE Keep([out EXCEPT !.Language = Fld(fields, 1)])

\* the switch with the language case as its default
EntityDispatchDefault(out, fields) ==
    IF HasPrefix(Fld(fields, 0), TagEntity) THEN EntityCase(out, fields)
    ELSE IF HasPrefix(Fld(fields, 0), TagMissing) THEN MissingCase(out, fields)
    ELSE LanguageCase(out, fields)

\* the switch on the tag
EntityDispatch(out, fields) ==
    IF HasPrefix(Fld(fields, 0), TagEntity) THEN EntityCase(out, fields)
    ELSE IF HasPrefix(Fld(fields, 0), TagMissing) THEN MissingCase(out, fields)
    ELSE IF HasPrefix(Fld(fields, 0), TagLanguage) THEN LanguageCase(out, fields)
    ELSE Keep(out)

\* a segment the loop skips: empty after trimming, or the sentinel
SkippedLine(line) == line = <<>> \/ line = CD

\* the body of the loop over the segments
EntityLine(out, segment) ==
    LET line == TrimSpace(segment)
    IN  IF SkippedLine(line) THEN Keep(out)
        ELSE LET fields == Split(line, TD)
             IN  IF Len(fields) = 0 THEN Keep(out)
                 ELSE EntityDispatch(out, fields)

RECURSIVE EntityLoopUntilSentinel(_, _)
\* the loop with `break` in place of `continue` at the terminal sentinel
EntityLoopUntilSentinel(lines, st) ==
    IF st.panicked \/ Len(lines) = 0 THEN st
    ELSE IF TrimSpace(Head(lines)) = CD THEN st
    ELSE EntityLoopUntilSentinel(Tail(lines), EntityLine(st.out, Head(lines)))

RECURSIVE EntityLoop(_, _)
\* for _, line := range lines
EntityLoop(lines, st) ==
    IF st.panicked \/ Len(lines) = 0 THEN st
    ELSE EntityLoop(Tail(lines), EntityLine(st.out, Head(lines)))

\* What a call leaves with its caller: whether it returned at all (an index
\* out of range panics), the pointer and the error it returned.
Returned(st) ==
    [called |-> TRUE, panicked |-> st.panicked, isNil |-> FALSE,
     out |-> st.out, err |-> "nil"]

\* a parser that keeps its output in a package variable, which it does not
\* reset: it goes on from the output of its last call
NewEntityOutputReused(earlier) ==
    IF \E o \in earlier : "Entities" \in DOMAIN o
    THEN CHOOSE o \in earlier : "Entities" \in DOMAIN o
    ELSE EmptyEntityOutput

\* out := &EntityOutput{}: a new value, whatever the outputs that the earlier
\* calls of the process have returned
NewEntityOutput(earlier) == EmptyEntityOutput

\* ParseEntityOutput(text) in a process whose earlier calls returned earlier
ParseEntityOutputAfter(earlier, text) ==
    Returned(EntityLoop(Split(text, RD), Keep(NewEntityOutput(earlier))))

ParseEntityOutput(text) ==
    Returned(EntityLoop(Split(text, RD), Keep(EmptyEntityOutput)))

(***************************************************************************)
(* The intent-classification parser.                                       *)
(***************************************************************************)
\* &IntentOutput{}
EmptyIntentOutput == [Intents |-> <<>>, Languages |-> <<>>]

\* case "(intent"
IntentCase(out, fields) ==
    IF ~InRange(fields, 4) THEN Panic(out)
    ELSE Keep([out EXCEPT !.Intents =
                 Append(@, [Name       |-> Fld(fields, 1),
                            Confidence |-> parseFloat(Fld(fields, 2)),
                            Priority   |-> parseFloat(Fld(fields, 3)),
                            Meta       |-> Unmarshal(Fld(fields, 4), MakeMap)])])

\* case "(language"
IntentLanguageCase(out, fields) ==
    IF ~InRange(fields, 4) THEN Panic(out)
    ELSE Keep([out EXCEPT !.Languages =
                 Append(@, [Code        |-> Fld(fields, 1),
                            Confidence  |-> parseFloat(Fld(fields, 2)),
                            PrimaryFlag |-> FloatToInt(parseFloat(Fld(fields, 3))),
                            Meta        |-> Unmarshal(Fld(fields, 4), MakeMap)])])

\* the switch matching the tags by prefix, as the entity parser does
IntentDispatchByPrefix(out, fields) ==
    IF HasPrefix(Fld(fields, 0), TagIntent) THEN IntentCase(out, fields)
    ELSE IF HasPrefix(Fld(fields, 0), TagLanguage) THEN IntentLanguageCase(out, fields)
    ELSE Keep(out)

\* switch prefix
IntentDispatch(out, fields) ==
    IF Fld(fields, 0) = TagIntent THEN IntentCase(out, fields)
    ELSE IF Fld(fields, 0) = TagLanguage THEN IntentLanguageCase(out, fields)
    ELSE Keep(out)

IntentLine(out, segment) ==
    LET line == TrimSpace(segment)
    IN  IF SkippedLine(line) THEN Keep(out)
        ELSE LET fields == Split(line, TD)
             IN  IF Len(fields) < IntentMinFields THEN Keep(out)
                 ELSE IntentDispatch(out, fields)

RECURSIVE IntentLoop(_, _)
IntentLoop(lines, st) ==
    IF st.panicked \/ Len(lines) = 0 THEN st
    ELSE IntentLoop(Tail(lines), IntentLine(st.out, Head(lines)))

\* out := &IntentOutput{}: a new value, whatever the outputs that the earlier
\* calls of the process have returned
NewIntentOutput(earlier) == EmptyIntentOutput

\* ParseIntentOutput(text) in a process whose earlier calls returned earlier
ParseIntentOutputAfter(earlier, text) ==
    Returned(IntentLoop(Split(text, RD), Keep(NewIntentOutput(earlier))))

ParseIntentOutput(text) ==
    Returned(IntentLoop(Split(text, RD), Keep(EmptyIntentOutput)))

(***************************************************************************)
(* The slot-filling validator.                                             *)
(***************************************************************************)
RECURSIVE OfType(_, _, _)
\* for _, e := range o.Entities { if e.Type == t { out = append(out, e) } }
OfType(entities, t, out) ==
    IF Len(entities) = 0 THEN out
    ELSE OfType(Tail(entities), t,
                IF Head(entities).Type = t THEN Append(out, Head(entities)) ELSE out)

\* the query with `var out []EntitySpan` in place of `out := []EntitySpan{}`
EntitiesByTypeNilWhenNone(o, t) ==
    [isNil |-> OfType(o.Entities, t, <<>>) = <<>>,
     spans |-> OfType(o.Entities, t, <<>>)]

\* (o *EntityOutput) EntitiesByType(t): the slice it returns
EntitiesByType(o, t) ==
    [isNil |-> FALSE, spans |-> OfType(o.Entities, t, <<>>)]

\* the validator with >= in place of >
SatisfiesAtHalf(e) == 2 * e.Confidence.num >= Pow10(e.Confidence.scale) /\ e.Start >= 0

\* e.Confidence > 0.5 && e.Start >= 0
Satisfies(e) == GreaterThanHalf(e.Confidence) /\ e.Start >= 0

\* the keys of found that map to true
Found(entities) ==
    {entities[i].Type : i \in {j \in 1..Len(entities) : Satisfies(entities[j])}}

RECURSIVE MissLoop(_, _, _)
\* for _, k := range required
MissLoop(req, found, acc) ==
    IF Len(req) = 0 THEN acc
    ELSE MissLoop(Tail(req), found,
                  IF Head(req) \notin found THEN Append(acc, Head(req)) ELSE acc)

RECURSIVE MissLoopPrepend(_, _, _)
MissLoopPrepend(req, found, acc) ==
    IF Len(req) = 0 THEN acc
    ELSE MissLoopPrepend(Tail(req), found,
                         IF Head(req) \notin found THEN <<Head(req)>> \o acc ELSE acc)

\* the validator building its result back to front
MissingKeysReversed(out, req) == MissLoopPrepend(req, Found(out.Entities), <<>>)

\* the validator taking a key the model reported missing as missing
MissingKeysTrustingModel(out, req) ==
    MissLoop(req,
             Found(out.Entities) \ {out.Missing[i] : i \in 1..Len(out.Missing)},
             <<>>)

MissingKeys(out, req) == MissLoop(req, Found(out.Entities), <<>>)

(***************************************************************************)
(* The texts the parsers are applied to: the completions of a model that   *)
(* was told the wire format and follows it only loosely.                   *)
(***************************************************************************)
KBrand == <<"b", "r", "a", "n", "d">>
KPrice == <<"p", "r", "i", "c", "e">>
KColor == <<"c", "o", "l", "o", "r">>
KTha == <<"t", "h", "a">>
KEng == <<"e", "n", "g">>
KGreet == <<"g", "r", "e", "e", "t">>
KBuy == <<"b", "u", "y">>
KAsk == <<"a", "s", "k">>
KBye == <<"b", "y", "e">>
\* an entity that fills its slot: confidence 0.9, start 0
SegEntityOk == <<"(", "e", "n", "t", "i", "t", "y", "<", "|", "|", ">", "b", "r", "a", "n", "d", "<", "|", "|", ">", "x", "<", "|", "|", ">", "0", "<", "|", "|", ">", "1", "<", "|", "|", ">", "0", ".", "9">>
\* start -1 with a high confidence
SegEntityNegStart == <<"(", "e", "n", "t", "i", "t", "y", "<", "|", "|", ">", "p", "r", "i", "c", "e", "<", "|", "|", ">", "y", "<", "|", "|", ">", "-", "1", "<", "|", "|", ">", "2", "<", "|", "|", ">", "0", ".", "9">>
\* confidence exactly 0.5
SegEntityHalf == <<"(", "e", "n", "t", "i", "t", "y", "<", "|", "|", ">", "p", "r", "i", "c", "e", "<", "|", "|", ">", "y", "<", "|", "|", ">", "3", "<", "|", "|", ">", "4", "<", "|", "|", ">", "0", ".", "5">>
\* white space around the record, confidence just above 0.5
SegEntityPadded == <<" ", "(", "e", "n", "t", "i", "t", "y", "<", "|", "|", ">", "c", "o", "l", "o", "r", "<", "|", "|", ">", "z", "<", "|", "|", ">", "5", "<", "|", "|", ">", "9", "<", "|", "|", ">", "0", ".", "5", "1", "\n">>
\* the 3-field entity record of the spec
SegEntityShort == <<"(", "e", "n", "t", "i", "t", "y", "<", "|", "|", ">", "c", "o", "l", "o", "r", "<", "|", "|", ">", "r", "e", "d">>
\* a garbled field separator leaves 5 fields
SegEntityGarbled == <<"(", "e", "n", "t", "i", "t", "y", "<", "|", "|", ">", "b", "r", "a", "n", "d", "<", "|", "|", ">", "x", "<", "|", "|", ">", "0", "<", "|", "|", ">", "1", "<", "|", ">", "0", ".", "9">>
SegMissing == <<"(", "m", "i", "s", "s", "i", "n", "g", "<", "|", "|", ">", "b", "r", "a", "n", "d">>
\* only the tag
SegMissingBare == <<"(", "m", "i", "s", "s", "i", "n", "g">>
\* the language record of the entity grammar
SegLanguage4 == <<"(", "l", "a", "n", "g", "u", "a", "g", "e", "<", "|", "|", ">", "t", "h", "a", "<", "|", "|", ">", "0", ".", "9", "<", "|", "|", ">", "1">>
SegLanguage3 == <<"(", "l", "a", "n", "g", "u", "a", "g", "e", "<", "|", "|", ">", "e", "n", "g", "<", "|", "|", ">", "1">>
\* the unknown record of the spec
SegUnknown == <<"(", "f", "o", "o", "<", "|", "|", ">", "b", "a", "r", "<", "|", "|", ">", "b", "a", "z">>
SegSentinel == <<"<", "|", "C", "O", "M", "P", "L", "E", "T", "E", "|", ">">>
SegBlank == <<" ">>
\* a stray "#", which shifts the record separators around it
SegHash == <<"#">>
SegIntentOk == <<"(", "i", "n", "t", "e", "n", "t", "<", "|", "|", ">", "g", "r", "e", "e", "t", "<", "|", "|", ">", "0", ".", "9", "<", "|", "|", ">", "1", "<", "|", "|", ">", "{", "}">>
\* the JSON literal null as meta
SegIntentNull == <<"(", "i", "n", "t", "e", "n", "t", "<", "|", "|", ">", "b", "u", "y", "<", "|", "|", ">", "0", ".", "8", "<", "|", "|", ">", "2", "<", "|", "|", ">", "n", "u", "l", "l">>
\* numbers that do not scan and a truncated JSON object
SegIntentBadMeta == <<"(", "i", "n", "t", "e", "n", "t", "<", "|", "|", ">", "a", "s", "k", "<", "|", "|", ">", "x", "<", "|", "|", ">", " ", "7", ".", "9", "z", "<", "|", "|", ">", "{", "\"", "k", "\"", ":", "1">>
\* 4 fields
SegIntentShort == <<"(", "i", "n", "t", "e", "n", "t", "<", "|", "|", ">", "b", "y", "e", "<", "|", "|", ">", "0", ".", "1", "<", "|", "|", ">", "3">>
\* the language record of the intent grammar
SegLanguage5 == <<"(", "l", "a", "n", "g", "u", "a", "g", "e", "<", "|", "|", ">", "e", "n", "g", "<", "|", "|", ">", "0", ".", "7", "<", "|", "|", ">", "1", ".", "9", "<", "|", "|", ">", "{", "\"", "s", "\"", ":", "\"", "t", "\"", ",", "\"", "n", "\"", ":", "2", "}">>
\* meta is JSON but no object
SegLanguageArr == <<"(", "l", "a", "n", "g", "u", "a", "g", "e", "<", "|", "|", ">", "t", "h", "a", "<", "|", "|", ">", "0", ".", "2", "<", "|", "|", ">", "0", "<", "|", "|", ">", "[", "1", "]">>
\* 5 fields under a tag that only starts with (intent
SegIntentX == <<"(", "i", "n", "t", "e", "n", "t", "X", "<", "|", "|", ">", "b", "y", "e", "<", "|", "|", ">", "1", "<", "|", "|", ">", "1", "<", "|", "|", ">", "{", "}">>

\* the segments of a completion under the entity prompt; the last two are
\* records of the other grammar
EntitySegments ==
    {SegEntityOk, SegEntityNegStart, SegEntityHalf, SegEntityPadded,
     SegEntityShort, SegEntityGarbled, SegMissing, SegMissingBare,
     SegLanguage4, SegLanguage3, SegUnknown, SegSentinel,
     SegBlank, SegHash, SegLanguage5, SegIntentOk}

\* the segments of a completion under the intent prompt; the last two are
\* records of the other grammar
IntentSegments ==
    {SegIntentOk, SegIntentNull, SegIntentBadMeta, SegIntentShort,
     SegLanguage5, SegLanguageArr, SegIntentX, SegUnknown,
     SegSentinel, SegBlank, SegHash, SegLanguage4, SegEntityOk}

\* the raw completion texts: at most MaxRecords segments joined by "##"
TextsOf(segments) ==
    {Join(segs, RD) : segs \in UNION {[1..n -> segments] : n \in 0..MaxRecords}}

EntityTexts == TextsOf(EntitySegments)
IntentTexts == TextsOf(IntentSegments)

\* the types the callers of EntitiesByType ask for
EntityTypes == {KBrand, KPrice, KColor, <<>>}

\* the required-key lists of the callers of MissingKeys
RequiredLists ==
    {<<>>, <<KBrand, KPrice>>, <<KPrice, KColor, KBrand, KPrice>>}

(***************************************************************************)
(* The prompt renderers.                                                   *)
(***************************************************************************)
RECURSIVE ReplaceFrom(_, _, _)
\* strings.NewReplacer(old1, new1, ...).Replace(s), from position i of s: one
\* pass from left to right; where an old string occurs (the earliest pair of
\* the argument list first) its new string is written and the scan goes on
\* after the occurrence, so that a written value is never scanned again
ReplaceFrom(s, i, pairs) ==
    LET at == {p \in i..Len(s) : \E k \in 1..Len(pairs) : MatchAt(s, p, pairs[k][1])}
    IN  IF at = {} THEN From(s, i)
        ELSE LET p == CHOOSE q \in at : \A r \in at : q <= r
                 k == CHOOSE h \in 1..Len(pairs) :
                          /\ MatchAt(s, p, pairs[h][1])
                          /\ \A g \in 1..(h - 1) : ~MatchAt(s, p, pairs[g][1])
             IN  SubSeq(s, i, p - 1) \o pairs[k][2]
                     \o ReplaceFrom(s, p + Len(pairs[k][1]), pairs)

\* (the text and the pairs are evaluated once, then scanned)
Replace(s, pairs) ==
    CHOOSE r \in {ReplaceFrom(v, 1, q) : v \in {s}, q \in {pairs}} : TRUE

\* strings.Contains
Contains(s, sub) == Len(sub) = 0 \/ \E p \in 1..Len(s) : MatchAt(s, p, sub)

Comma == <<",">>
Unresolved == <<"{", "{">>

PhIntentName == <<"{", "{", "i", "n", "t", "e", "n", "t", "_", "n", "a", "m", "e", "}", "}">>
PhRequiredKeysCSV == <<"{", "{", "r", "e", "q", "u", "i", "r", "e", "d", "_", "k", "e", "y", "s", "_", "c", "s", "v", "}", "}">>
PhAllowedEntitiesCSV == <<"{", "{", "a", "l", "l", "o", "w", "e", "d", "_", "e", "n", "t", "i", "t", "i", "e", "s", "_", "c", "s", "v", "}", "}">>
PhUserMessage == <<"{", "{", "u", "s", "e", "r", "_", "m", "e", "s", "s", "a", "g", "e", "}", "}">>
PhLanguage == <<"{", "{", "l", "a", "n", "g", "u", "a", "g", "e", "}", "}">>

PhTD == <<"{", "T", "D", "}">>
PhRD == <<"{", "R", "D", "}">>
PhCD == <<"{", "C", "D", "}">>
PhIntentList == <<"{", "i", "n", "t", "e", "n", "t", "_", "l", "i", "s", "t", "}">>

\* uniq with the entries as the caller wrote them
UniqUntrimmed(entities) == {entities[i] : i \in 1..Len(entities)}

\* uniq: the keys of the map that the loop over AllowedEntities fills
Uniq(entities) == {TrimSpace(entities[i]) : i \in 1..Len(entities)}

\* `for k := range uniq`: a Go map is visited in an order that the language
\* leaves unspecified and the runtime randomizes; every order can occur
Visits(keys) ==
    {o \in [1..Cardinality(keys) -> keys] :
        \A i, j \in 1..Cardinality(keys) : o[i] = o[j] => i = j}

\* the outcomes of tpl.Format(ctx, ...): the messages, an error, no message
FormatOutcomes == {"messages", "error", "empty"}

NotRendered == [called |-> FALSE, text |-> <<>>, err |-> "nil", allowedCSV |-> <<>>]

Rendered(text, err, csv) ==
    [called |-> TRUE, text |-> text, err |-> err, allowedCSV |-> csv]

\* the wrap of content in a system message and the return of its Content
Formatted(content, outcome, csv, name) ==
    IF outcome = "error" THEN Rendered(<<>>, name, csv)
    ELSE IF outcome = "empty" THEN Rendered(<<>>, name \o ": empty result", csv)
    ELSE Rendered(content, "nil", csv)

\* RenderEntitySystem(ctx, in) with the template entitySystemTemplate, the
\* map visited in the order visit and tpl.Format ending as outcome
RenderEntitySystem(in, template, visit, outcome) ==
    IF in.isNil THEN Rendered(<<>>, "entity input is nil", <<>>)
    ELSE LET allowedCSV == Join(visit, Comma)
             reqCSV == Join(in.RequiredKeys, Comma)
             content == Replace(template,
                            << <<PhIntentName, in.IntentName>>,
                               <<PhRequiredKeysCSV, reqCSV>>,
                               <<PhAllowedEntitiesCSV, allowedCSV>>,
                               <<PhUserMessage, in.UserMessage>>,
                               <<PhLanguage, in.Language>> >>)
         IN  Formatted(content, outcome, allowedCSV, "entity prompt callbacks")

\* RenderintentSystem(ctx, intentConfig) with the template intentSystemTemplate
RenderintentSystem(cfg, template, outcome) ==
    IF cfg.isNil THEN Rendered(<<>>, "intent config is nil", <<>>)
    ELSE LET content == Replace(template,
                            << <<PhTD, TD>>, <<PhRD, RD>>, <<PhCD, CD>>,
                               <<PhIntentList, cfg.IntentList>> >>)
         IN  Formatted(content, outcome, <<>>, "intent prompt callbacks")

LowerCase == <<"a", "b", "c", "d", "e", "f", "g", "h", "i", "j", "k", "l", "m", "n", "o", "p", "q", "r", "s", "t", "u", "v", "w", "x", "y", "z">>
UpperCase == <<"A", "B", "C", "D", "E", "F", "G", "H", "I", "J", "K", "L", "M", "N", "O", "P", "Q", "R", "S", "T", "U", "V", "W", "X", "Y", "Z">>

\* unicode.ToUpper, on the characters of the model's texts
UpperOf(c) ==
    IF \E i \in 1..Len(LowerCase) : LowerCase[i] = c
    THEN UpperCase[CHOOSE i \in 1..Len(LowerCase) : LowerCase[i] = c]
    ELSE c

\* strings.ToUpper
ToUpper(s) == [i \in 1..Len(s) |-> UpperOf(s[i])]

\* strings.ReplaceAll with a non-empty old string
ReplaceAll(s, old, new) == Replace(s, << <<old, new>> >>)

brandNameDefault == <<"C", "h", "a", "t", "i", "v", "e", " ", "B", "r", "a", "n", "d">>
channelDefault == <<"O", "n", "l", "i", "n", "e", " ", "S", "t", "o", "r", "e", "f", "r", "o", "n", "t">>
targetSegmentsDefault == <<"Y", "o", "u", "n", "g", " ", "P", "r", "o", "f", "e", "s", "s", "i", "o", "n", "a", "l", "s", " ", "s", "e", "e", "k", "i", "n", "g", " ", "l", "i", "f", "e", "s", "t", "y", "l", "e", " ", "u", "p", "g", "r", "a", "d", "e", "s">>
mbtiTypeDefault == <<"E", "X", "P", "E", "R", "T">>

PhBrandName == <<"{", "{", "B", "R", "A", "N", "D", "_", "N", "A", "M", "E", "}", "}">>
PhChannel == <<"{", "{", "C", "H", "A", "N", "N", "E", "L", "}", "}">>
PhTargetSegments == <<"{", "{", "T", "A", "R", "G", "E", "T", "_", "S", "E", "G", "M", "E", "N", "T", "S", "}", "}">>
PhMbtiType == <<"{", "{", "M", "B", "T", "I", "_", "T", "Y", "P", "E", "}", "}">>
PhMbti == <<"{", "{", "M", "B", "T", "I", "}", "}">>

\* whether the JSON value val is a string without escapes, or null
JIsString(val) == Len(val) >= 2 /\ val[1] = "\""
JIsNull(val) == val = <<"n", "u", "l", "l">>

RECURSIVE StoreStrings(_, _)
\* d.object on a map[string]string: a string member is stored, null stores
\* the empty string, a repeated key keeps its last value
StoreStrings(kv, members) ==
    IF Len(members) = 0 THEN kv
    ELSE LET m == Head(members)
             v == IF JIsString(m.val) THEN SubSeq(m.val, 2, Len(m.val) - 1) ELSE <<>>
         IN  StoreStrings([k \in (DOMAIN kv) \cup {m.key} |->
                              IF k = m.key THEN v ELSE kv[k]],
                          Tail(members))

\* loadMBTIProfiles: json.Unmarshal of embeddedMBTIProfiles into a
\* map[string]string; a syntax error, a value that is no object and a member
\* that is no string are errors; the literal null leaves a nil map
loadMBTIProfiles(data) ==
    IF ~JValid(data) THEN [err |-> "parse mbti profiles", profiles |-> EmptyKV]
    ELSE LET i == JSkip(data, 1)
         IN  IF data[i] = "{"
             THEN LET members == JObject(data, i).members
                  IN  IF \A k \in 1..Len(members) :
                             JIsString(members[k].val) \/ JIsNull(members[k].val)
                      THEN [err |-> "nil", profiles |-> StoreStrings(EmptyKV, members)]
                      ELSE [err |-> "parse mbti profiles", profiles |-> EmptyKV]
             ELSE IF data[i] = "n" THEN [err |-> "nil", profiles |-> EmptyKV]
             ELSE [err |-> "parse mbti profiles", profiles |-> EmptyKV]

RECURSIVE ReplaceEach(_, _, _)
\* the loop `for placeholder, value := range replacements`, visiting the
\* placeholders in the order visit
ReplaceEach(result, replacements, visit) ==
    IF Len(visit) = 0 THEN result
    ELSE ReplaceEach(ReplaceAll(result, Head(visit), replacements[Head(visit)]),
                     replacements, Tail(visit))

\* the keys of the map replacements
Placeholders == {PhBrandName, PhChannel, PhTargetSegments, PhMbtiType, PhMbti}

\* renderSystemPrompt(template) once loadMBTIProfiles has returned loaded,
\* with the map replacements visited in the order visit
renderWithProfiles(template, loaded, visit) ==
    LET brandName == TrimSpace(brandNameDefault)
        channel == TrimSpace(channelDefault)
        targetSegments == TrimSpace(targetSegmentsDefault)
        mbtiType == ToUpper(TrimSpace(mbtiTypeDefault))
    IN  IF brandName = <<>> \/ channel = <<>> \/ targetSegments = <<>> \/ mbtiType = <<>>
        THEN Rendered(<<>>, "system prompt configuration is incomplete", <<>>)
        ELSE IF loaded.err # "nil" THEN Rendered(<<>>, loaded.err, <<>>)
        ELSE IF mbtiType \notin DOMAIN loaded.profiles
        THEN Rendered(<<>>, "mbti type not found in profiles", <<>>)
        ELSE LET replacements ==
                     [p \in Placeholders |->
                         CASE p = PhBrandName -> brandName
                           [] p = PhChannel -> channel
                           [] p = PhTargetSegments -> targetSegments
                           [] p = PhMbtiType -> mbtiType
                           [] p = PhMbti -> TrimSpace(loaded.profiles[mbtiType])]
                 result == ReplaceEach(template, replacements, visit)
             IN  IF Contains(result, Unresolved)
                 THEN Rendered(<<>>, "system prompt still contains unresolved placeholders", <<>>)
                 ELSE Rendered(result, "nil", <<>>)

\* renderSystemPrompt(template) with the profiles text embeddedMBTIProfiles
renderSystemPrompt(template, data, visit) ==
    renderWithProfiles(template, loadMBTIProfiles(data), visit)

\* The inputs of the renderers.  The templates are the values of the
\* package variables entitySystemTemplate and intentSystemTemplate.

\* AllowedEntities holds at most MaxAllowed entries
MaxAllowed == 3

KHi == <<"h", "i">>
KBlank == <<" ">>
KBraces == <<"a", " ", "{", "{", "b", "}", "}">>
KPaddedBrand == <<" ", "b", "r", "a", "n", "d", " ">>
KIntentList == <<"g", "r", "e", "e", "t", ":", "0", ".", "1", ",", " ", "b", "u", "y", ":", "0", ".", "8">>

TplEntity == <<"N", "=", "{", "{", "i", "n", "t", "e", "n", "t", "_", "n", "a", "m", "e", "}", "}", ";", "K", "=", "{", "{", "r", "e", "q", "u", "i", "r", "e", "d", "_", "k", "e", "y", "s", "_", "c", "s", "v", "}", "}", ";", "A", "=", "{", "{", "a", "l", "l", "o", "w", "e", "d", "_", "e", "n", "t", "i", "t", "i", "e", "s", "_", "c", "s", "v", "}", "}", ";", "M", "=", "{", "{", "u", "s", "e", "r", "_", "m", "e", "s", "s", "a", "g", "e", "}", "}", ";", "L", "=", "{", "{", "l", "a", "n", "g", "u", "a", "g", "e", "}", "}", ".">>
\* a template with a token that the replacer does not know
TplEntityStray == <<"M", "=", "{", "{", "u", "s", "e", "r", "_", "m", "e", "s", "s", "a", "g", "e", "}", "}", ";", "D", "=", "{", "{", "t", "o", "d", "a", "y", "}", "}", ".">>

TplIntent == <<"I", "=", "{", "i", "n", "t", "e", "n", "t", "_", "l", "i", "s", "t", "}", ";", "T", "=", "{", "T", "D", "}", ";", "R", "=", "{", "R", "D", "}", ";", "C", "=", "{", "C", "D", "}", ";", "J", "=", "{", "\"", "k", "\"", ":", "1", "}", ".">>

GoodInput ==
    [isNil |-> FALSE, IntentName |-> KBuy, RequiredKeys |-> <<KBrand, KPrice>>,
     AllowedEntities |-> <<KBrand, KPrice>>, UserMessage |-> KHi,
     Language |-> KTha]

NilInput ==
    [isNil |-> TRUE, IntentName |-> <<>>, RequiredKeys |-> <<>>,
     AllowedEntities |-> <<>>, UserMessage |-> <<>>, Language |-> <<>>]

\* the inputs that differ from GoodInput in one field
EntityInputs ==
    {GoodInput, NilInput,
     [GoodInput EXCEPT !.IntentName = <<>>],
     [GoodInput EXCEPT !.IntentName = KBlank],
     [GoodInput EXCEPT !.RequiredKeys = <<>>],
     [GoodInput EXCEPT !.AllowedEntities = <<KBlank>>],
     [GoodInput EXCEPT !.UserMessage = KBlank],
     [GoodInput EXCEPT !.UserMessage = KBraces],
     [GoodInput EXCEPT !.Language = <<>>]}

\* the entries of the caller's AllowedEntities lists
AllowedEntries == {KBrand, KPaddedBrand, KPrice, KColor}

AllowedLists == UNION {[1..n -> AllowedEntries] : n \in 0..MaxAllowed}

IntentConfigs ==
    {[isNil |-> FALSE, IntentList |-> KIntentList],
     [isNil |-> FALSE, IntentList |-> <<>>],
     [isNil |-> FALSE, IntentList |-> KBlank],
     [isNil |-> TRUE, IntentList |-> <<>>]}

TplPersona == <<"B", "=", "{", "{", "B", "R", "A", "N", "D", "_", "N", "A", "M", "E", "}", "}", ";", "C", "=", "{", "{", "C", "H", "A", "N", "N", "E", "L", "}", "}", ";", "S", "=", "{", "{", "T", "A", "R", "G", "E", "T", "_", "S", "E", "G", "M", "E", "N", "T", "S", "}", "}", ";", "T", "=", "{", "{", "M", "B", "T", "I", "_", "T", "Y", "P", "E", "}", "}", ";", "P", "=", "{", "{", "M", "B", "T", "I", "}", "}", ".">>
\* a template with a token that is no key of replacements
TplPersonaStray == <<"B", "=", "{", "{", "B", "R", "A", "N", "D", "_", "N", "A", "M", "E", "}", "}", ";", "D", "=", "{", "{", "T", "O", "D", "A", "Y", "}", "}", ".">>
\* a template without tokens
TplPersonaPlain == <<"B", "e", " ", "b", "r", "i", "e", "f", ".">>

ProfilesExpert == <<"{", "\"", "I", "N", "T", "J", "\"", ":", "\"", "x", "\"", ",", "\"", "E", "X", "P", "E", "R", "T", "\"", ":", "\"", " ", "c", "a", "l", "m", " ", "\"", "}">>
\* a description that holds a token
ProfilesToken == <<"{", "\"", "E", "X", "P", "E", "R", "T", "\"", ":", "\"", "f", "o", "r", " ", "{", "{", "C", "H", "A", "N", "N", "E", "L", "}", "}", "\"", "}">>
\* a description that holds an opening brace pair
ProfilesBraces == <<"{", "\"", "E", "X", "P", "E", "R", "T", "\"", ":", "\"", "{", "{", " ", "c", "a", "l", "m", "\"", "}">>
ProfilesOther == <<"{", "\"", "I", "N", "T", "J", "\"", ":", "\"", "x", "\"", "}">>
ProfilesNumber == <<"{", "\"", "E", "X", "P", "E", "R", "T", "\"", ":", "1", "}">>
ProfilesCut == <<"{", "\"", "E", "X", "P", "E", "R", "T", "\"", ":", "\"", "c", "a", "l", "m", "\"">>
ProfilesNull == <<"n", "u", "l", "l">>

PersonaTemplates == {TplPersona, TplPersonaStray, TplPersonaPlain}

PersonaProfiles ==
    {ProfilesExpert, ProfilesToken, ProfilesBraces, ProfilesOther,
     ProfilesNumber, ProfilesCut, ProfilesNull}

NoInput == [kind |-> "none"]

EntityRenderInputs ==
    {[kind |-> "entity", in |-> in, template |-> t] :
        in \in EntityInputs, t \in {TplEntity, TplEntityStray}}
    \cup {[kind |-> "entity", template |-> TplEntity,
           in |-> [GoodInput EXCEPT !.AllowedEntities = l]] : l \in AllowedLists}

IntentRenderInputs ==
    {[kind |-> "intent", in |-> cfg, template |-> TplIntent] : cfg \in IntentConfigs}

(***************************************************************************)
(* The required-keys registry.                                             *)
(***************************************************************************)
EnvPrefix == <<"N", "L", "U", "_", "R", "E", "Q", "U", "I", "R", "E", "D", "_">>

\* os.Getenv: the environment is a set of <<name, value>> pairs with one
\* pair per name; a name that is not set reads as the empty string
Getenv(environment, key) ==
    IF \E p \in environment : p[1] = key
    THEN (CHOOSE p \in environment : p[1] = key)[2]
    ELSE <<>>

\* the name with its spaces and hyphens replaced before it is trimmed
EnvNameReplaceFirst(intentName) ==
    ToUpper(TrimSpace(Replace(intentName,
                              << << <<" ">>, <<"_">> >>, << <<"-">>, <<"_">> >> >>)))

\* strings.ToUpper(replacer.Replace(strings.TrimSpace(intentName)))
EnvName(intentName) ==
    ToUpper(Replace(TrimSpace(intentName),
                    << << <<" ">>, <<"_">> >>, << <<"-">>, <<"_">> >> >>))

RECURSIVE NonBlankTrimmed(_)
\* the loop over parts: the trimmed parts that are not empty, in order
NonBlankTrimmed(parts) ==
    IF Len(parts) = 0 THEN <<>>
    ELSE LET rest == NonBlankTrimmed(Tail(parts))
         IN  IF TrimSpace(Head(parts)) # <<>>
             THEN <<TrimSpace(Head(parts))>> \o rest
             ELSE rest

NotLookedUp == [called |-> FALSE, name |-> <<>>, isNil |-> TRUE, keys |-> <<>>]

LookedUp(name, isNil, keys) ==
    [called |-> TRUE, name |-> name, isNil |-> isNil, keys |-> keys]

\* RequiredKeysForIntent(intentName) in the environment
RequiredKeysForIntent(intentName, environment) ==
    IF intentName = <<>> THEN LookedUp(intentName, TRUE, <<>>)
    ELSE IF Getenv(environment, EnvPrefix \o EnvName(intentName)) = <<>>
    THEN LookedUp(intentName, TRUE, <<>>)
    ELSE LookedUp(intentName, FALSE,
                  NonBlankTrimmed(Split(Getenv(environment,
                                               EnvPrefix \o EnvName(intentName)),
                                        Comma)))

\* the environments of the process and the names the callers ask for
KeyAskPrice == <<"N", "L", "U", "_", "R", "E", "Q", "U", "I", "R", "E", "D", "_", "A", "S", "K", "_", "P", "R", "I", "C", "E">>
KeyBuy == <<"N", "L", "U", "_", "R", "E", "Q", "U", "I", "R", "E", "D", "_", "B", "U", "Y">>

Environments ==
    {{},
     {<<KeyAskPrice, <<"p", "r", "i", "c", "e", ",", " ", "b", "r", "a", "n", "d", ",", ",", "p", "r", "i", "c", "e", " ">>>>, <<KeyBuy, KBrand>>},
     {<<KeyAskPrice, <<>>>>, <<KeyBuy, <<" ", ",", " ">>>>},
     {<<EnvPrefix, KColor>>, <<KeyBuy, <<"b", "r", "a", "n", "d", ",", "c", "o", "l", "o", "r">>>>}}

IntentNames ==
    {<<"a", "s", "k", " ", "p", "r", "i", "c", "e">>, <<"A", "s", "k", "-", "P", "r", "i", "c", "e", " ">>, <<"A", "S", "K", "_", "P", "R", "I", "C", "E">>, <<"a", "s", "k", "\t", "p", "r", "i", "c", "e">>,
     KBuy, KBye, <<>>, KBlank}

(***************************************************************************)
(* The calls.                                                              *)
(***************************************************************************)
NotCalled(empty) ==
    [called |-> FALSE, panicked |-> FALSE, isNil |-> TRUE, out |-> empty, err |-> "nil"]

NoSpans == [called |-> FALSE, t |-> <<>>, isNil |-> TRUE, spans |-> <<>>]

NoKeys == [called |-> FALSE, keys |-> <<>>]

\* what the chat loop has done in its last turn; none before the first
NoTurn == [before |-> <<>>, invokes |-> 0, event |-> "none"]

\* the chat loop is not running
ChatOff ==
    /\ systemPrompt = <<>>
    /\ history = <<>>
    /\ loopPc = "off"
    /\ input = <<>>
    /\ invokes = 0
    /\ turn = NoTurn

\* nothing has been called yet
NothingCalled ==
    /\ eres = NotCalled(EmptyEntityOutput)
    /\ ires = NotCalled(EmptyIntentOutput)
    /\ required = <<>>
    /\ miss = NoKeys
    /\ byType = NoSpans
    /\ eagain = NotCalled(EmptyEntityOutput)
    /\ iagain = NotCalled(EmptyIntentOutput)
    /\ rres = NotRendered
    /\ ragain = NotRendered
    /\ lookup = NotLookedUp
    /\ lookupAgain = NotLookedUp
    /\ calls = <<>>
    /\ heap = <<>>
    /\ ChatOff

\* nothing has been called yet and there is nothing to render
Idle == NothingCalled /\ rin = NoInput /\ env = {}

\* out, err := ParseEntityOutput(raw)
CallParseEntityOutput ==
    /\ ~eres.called
    /\ eres' = ParseEntityOutput(raw)
    /\ UNCHANGED <<raw, ires, required, miss, byType, eagain, iagain>>
    /\ UNCHANGED <<renderVars, registryVars, concVars, chatVars>>

\* out, err := ParseIntentOutput(raw)
CallParseIntentOutput ==
    /\ ~ires.called
    /\ ires' = ParseIntentOutput(raw)
    /\ UNCHANGED <<raw, eres, required, miss, byType, eagain, iagain>>
    /\ UNCHANGED <<renderVars, registryVars, concVars, chatVars>>

\* miss := out.MissingKeys(req), on the output of the entity parser
CallMissingKeys(req) ==
    /\ eres.called /\ ~eres.panicked /\ ~eres.isNil
    /\ ~miss.called
    /\ required' = req
    /\ miss' = [called |-> TRUE, keys |-> MissingKeys(eres.out, req)]
    /\ UNCHANGED <<raw, eres, ires, byType, eagain, iagain>>
    /\ UNCHANGED <<renderVars, registryVars, concVars, chatVars>>

\* prompt, err := RenderEntitySystem(ctx, in), up to twice on the same input
CallRenderEntitySystem(outcome) ==
    /\ rin.kind = "entity"
    /\ ~ragain.called
    /\ \E visit \in Visits(Uniq(rin.in.AllowedEntities)) :
          LET r == RenderEntitySystem(rin.in, rin.template, visit, outcome)
          IN  IF rres.called
              THEN ragain' = r /\ UNCHANGED rres
              ELSE rres' = r /\ UNCHANGED ragain
    /\ UNCHANGED <<rin, parserVars, registryVars, concVars, chatVars>>

\* prompt, err := RenderintentSystem(ctx, intentConfig)
CallRenderintentSystem(outcome) ==
    /\ rin.kind = "intent"
    /\ ~rres.called
    /\ rres' = RenderintentSystem(rin.in, rin.template, outcome)
    /\ UNCHANGED <<rin, ragain, parserVars, registryVars, concVars, chatVars>>

\* prompt, err := renderSystemPrompt(template)
CallRenderSystemPrompt ==
    /\ rin.kind = "persona"
    /\ ~rres.called
    /\ \E visit \in Visits(Placeholders) :
          rres' = renderSystemPrompt(rin.template, rin.profiles, visit)
    /\ UNCHANGED <<rin, ragain, parserVars, registryVars, concVars, chatVars>>

\* keys := RequiredKeysForIntent(name), up to twice in one process
CallRequiredKeysForIntent(name) ==
    /\ ~lookupAgain.called
    /\ IF lookup.called
       THEN lookupAgain' = RequiredKeysForIntent(name, env) /\ UNCHANGED lookup
       ELSE lookup' = RequiredKeysForIntent(name, env) /\ UNCHANGED lookupAgain
    /\ UNCHANGED <<env, parserVars, renderVars, concVars, chatVars>>

\* spans := out.EntitiesByType(t), on the output of the entity parser
CallEntitiesByType(t) ==
    /\ eres.called /\ ~eres.panicked /\ ~eres.isNil
    /\ ~byType.called
    /\ byType' = [called |-> TRUE, t |-> t,
                  isNil |-> EntitiesByType(eres.out, t).isNil,
                  spans |-> EntitiesByType(eres.out, t).spans]
    /\ UNCHANGED <<raw, eres, ires, required, miss, eagain, iagain>>
    /\ UNCHANGED <<renderVars, registryVars, concVars, chatVars>>

\* the outputs that the calls of the process have returned so far
ReturnedSoFar ==
    {r.out : r \in {c \in {eres, ires, eagain, iagain} : c.called}}

\* out, err := ParseEntityOutput(raw), once more in the same process
CallParseEntityOutputAgain ==
    /\ eres.called /\ ~eagain.called
    /\ eagain' = ParseEntityOutputAfter(ReturnedSoFar, raw)
    /\ UNCHANGED <<raw, eres, ires, required, miss, byType, iagain>>
    /\ UNCHANGED <<renderVars, registryVars, concVars, chatVars>>

\* out, err := ParseIntentOutput(raw), once more in the same process
CallParseIntentOutputAgain ==
    /\ ires.called /\ ~iagain.called
    /\ iagain' = ParseIntentOutputAfter(ReturnedSoFar, raw)
    /\ UNCHANGED <<raw, eres, ires, required, miss, byType, eagain>>
    /\ UNCHANGED <<renderVars, registryVars, concVars, chatVars>>

\* Entity extraction and slot validation: a completion under the entity
\* prompt is parsed and the required keys are checked against its entities.
Init == raw \in EntityTexts /\ Idle

Next ==
    \/ CallParseEntityOutput
    \/ \E req \in RequiredLists : CallMissingKeys(req)

Spec == Init /\ [][Next]_vars

\* Entity extraction and the query by type on its output.
NextByType ==
    \/ CallParseEntityOutput
    \/ \E t \in EntityTypes : CallEntitiesByType(t)

SpecByType == Init /\ [][NextByType]_vars

\* Intent classification: a completion under the intent prompt is parsed.
InitIntent == raw \in IntentTexts /\ Idle

NextIntent == CallParseIntentOutput

SpecIntent == InitIntent /\ [][NextIntent]_vars

\* Both parsers on the completions of either prompt.
InitParsers == raw \in EntityTexts \cup IntentTexts /\ Idle

NextParsers ==
    \/ CallParseEntityOutput
    \/ CallParseIntentOutput

SpecParsers == InitParsers /\ [][NextParsers]_vars

PersonaRenderInputs ==
    {[kind |-> "persona", template |-> t, profiles |-> p] :
        t \in PersonaTemplates, p \in PersonaProfiles}

\* The renderers on their inputs.
InitRender ==
    /\ rin \in EntityRenderInputs \cup IntentRenderInputs \cup PersonaRenderInputs
    /\ raw = <<>>
    /\ env = {}
    /\ NothingCalled

NextRender ==
    \/ \E outcome \in FormatOutcomes : CallRenderEntitySystem(outcome)
    \/ \E outcome \in FormatOutcomes : CallRenderintentSystem(outcome)
    \/ CallRenderSystemPrompt

SpecRender == InitRender /\ [][NextRender]_vars

\* The registry in the environments of the process.
InitRegistry ==
    /\ env \in Environments
    /\ raw = <<>>
    /\ rin = NoInput
    /\ NothingCalled

NextRegistry == \E name \in IntentNames : CallRequiredKeysForIntent(name)

SpecRegistry == InitRegistry /\ [][NextRegistry]_vars

\* Both parsers, each called twice on one text, in any order.
NextRepeat ==
    \/ CallParseEntityOutput
    \/ CallParseIntentOutput
    \/ CallParseEntityOutputAgain
    \/ CallParseIntentOutputAgain

SpecRepeat == InitParsers /\ [][NextRepeat]_vars

\* Entity records by their start and end fields: signed and zero-padded
\* numbers, white space, an empty field and letters, digits beyond every int,
\* such digits before a letter, and the limits of the 32-bit int.
SegNumSigned == <<"(", "e", "n", "t", "i", "t", "y", "<", "|", "|", ">", "b", "r", "a", "n", "d", "<", "|", "|", ">", "x", "<", "|", "|", ">", "1", "2", "<", "|", "|", ">", "+", "7", "<", "|", "|", ">", "0", ".", "9">>
SegNumZeros == <<"(", "e", "n", "t", "i", "t", "y", "<", "|", "|", ">", "p", "r", "i", "c", "e", "<", "|", "|", ">", "y", "<", "|", "|", ">", "0", "0", "7", "<", "|", "|", ">", "-", "0", "<", "|", "|", ">", "0", ".", "9">>
SegNumPadded == <<"(", "e", "n", "t", "i", "t", "y", "<", "|", "|", ">", "c", "o", "l", "o", "r", "<", "|", "|", ">", "z", "<", "|", "|", ">", " ", "3", "<", "|", "|", ">", "4", " ", "<", "|", "|", ">", "0", ".", "9">>
SegNumEmpty == <<"(", "e", "n", "t", "i", "t", "y", "<", "|", "|", ">", "b", "r", "a", "n", "d", "<", "|", "|", ">", "x", "<", "|", "|", ">", "<", "|", "|", ">", "x", "1", "<", "|", "|", ">", "0", ".", "9">>
SegNumHuge == <<"(", "e", "n", "t", "i", "t", "y", "<", "|", "|", ">", "b", "r", "a", "n", "d", "<", "|", "|", ">", "x", "<", "|", "|", ">", "9", "9", "9", "9", "9", "9", "9", "9", "9", "9", "9", "9", "9", "9", "9", "9", "9", "9", "9", "9", "<", "|", "|", ">", "-", "9", "9", "9", "9", "9", "9", "9", "9", "9", "9", "9", "9", "9", "9", "9", "9", "9", "9", "9", "9", "<", "|", "|", ">", "0", ".", "9">>
SegNumHugeThen == <<"(", "e", "n", "t", "i", "t", "y", "<", "|", "|", ">", "p", "r", "i", "c", "e", "<", "|", "|", ">", "y", "<", "|", "|", ">", "9", "9", "9", "9", "9", "9", "9", "9", "9", "9", "9", "9", "9", "9", "9", "9", "9", "9", "9", "9", "x", "<", "|", "|", ">", "1", "<", "|", "|", ">", "0", ".", "9">>
SegNumWidth == <<"(", "e", "n", "t", "i", "t", "y", "<", "|", "|", ">", "c", "o", "l", "o", "r", "<", "|", "|", ">", "z", "<", "|", "|", ">", "2", "1", "4", "7", "4", "8", "3", "6", "4", "7", "<", "|", "|", ">", "4", "2", "9", "4", "9", "6", "7", "2", "9", "5", "<", "|", "|", ">", "0", ".", "9">>

NumberSegments ==
    {SegNumSigned, SegNumZeros, SegNumPadded, SegNumEmpty, SegNumHuge,
     SegNumHugeThen, SegNumWidth, SegEntityOk, SegEntityNegStart, SegMissing}

NumberTexts == TextsOf(NumberSegments)

\* Entity extraction and slot validation on the number texts.
InitNumbers == raw \in NumberTexts /\ Idle

SpecNumbers == InitNumbers /\ [][Next]_vars

(***************************************************************************)
(* Calls in flight on several goroutines.                                  *)
(*                                                                         *)
(* A call is at one place of its function: about to enter it, in one of    *)
(* its loops before element i, or returned.  A step of the program is one  *)
(* step of one call: the allocation of its locals, one pass of a loop      *)
(* body, the move from one loop to the next, the return.  The memory is    *)
(* a map from cells to what the calls keep in them.                        *)
(***************************************************************************)
Procs == {"g1", "g2"}

CallKinds == {"ParseEntityOutput", "ParseIntentOutput", "MissingKeys"}

Cells == Procs \cup CallKinds

\* functions that keep what they build in a variable of the package, one
\* for each function
CellOfPackage(p, kind) == kind

\* out := &EntityOutput{}, out := &IntentOutput{}, miss := []string{} and
\* found := map[string]bool{} are locals of the call: memory of its own
CellOf(p, kind) == p

\* the locals of a call as it enters its function
Allocated(kind) ==
    CASE kind = "ParseEntityOutput" -> Keep(EmptyEntityOutput)
      [] kind = "ParseIntentOutput" -> Keep(EmptyIntentOutput)
      [] kind = "MissingKeys" -> [found |-> {}, miss |-> <<>>]

\* what the loop a call is in ranges over
Ranged(c) ==
    CASE c.pc = "lines" -> Split(c.in.text, RD)
      [] c.pc = "entities" -> c.in.out.Entities
      [] c.pc = "required" -> c.in.required
      [] OTHER -> <<>>

Entered(x) == [in |-> x, pc |-> "enter", i |-> 0, mixed |-> FALSE, ret |-> <<>>]

\* another call is between its entry and its return
OthersInFlight(p) == \E q \in Procs \ {p} : calls[q].pc \notin {"enter", "done"}

\* call p goes to place pc, element i; st is what it leaves in its cell
Goes(p, pc, i, st) ==
    /\ calls' = [calls EXCEPT ![p].pc = pc, ![p].i = i,
                              ![p].mixed = @ \/ OthersInFlight(p)]
    /\ heap' = [heap EXCEPT ![CellOf(p, calls[p].in.kind)] = st]
    /\ UNCHANGED <<parserVars, renderVars, registryVars, chatVars>>

\* the cell of call p
Mine(p) == heap[CellOf(p, calls[p].in.kind)]

\* the entry of a call: its locals are allocated
EnterCall(p) ==
    /\ calls[p].pc = "enter"
    /\ Goes(p, IF calls[p].in.kind = "MissingKeys" THEN "entities" ELSE "lines", 1,
            Allocated(calls[p].in.kind))

\* one pass of `for _, line := range lines` in either parser
ParseLine(p) ==
    /\ calls[p].pc = "lines"
    /\ calls[p].i <= Len(Ranged(calls[p]))
    /\ ~Mine(p).panicked
    /\ Goes(p, "lines", calls[p].i + 1,
            IF calls[p].in.kind = "ParseEntityOutput"
            THEN EntityLine(Mine(p).out, Ranged(calls[p])[calls[p].i])
            ELSE IntentLine(Mine(p).out, Ranged(calls[p])[calls[p].i]))

\* one pass of `for _, e := range o.Entities`
MarkFound(p) ==
    /\ calls[p].pc = "entities"
    /\ calls[p].i <= Len(Ranged(calls[p]))
    /\ Goes(p, "entities", calls[p].i + 1,
            IF Satisfies(Ranged(calls[p])[calls[p].i])
            THEN [Mine(p) EXCEPT !.found = @ \cup {Ranged(calls[p])[calls[p].i].Type}]
            ELSE Mine(p))

\* the end of the first loop of MissingKeys
EndFound(p) ==
    /\ calls[p].pc = "entities"
    /\ calls[p].i > Len(Ranged(calls[p]))
    /\ Goes(p, "required", 1, Mine(p))

\* one pass of `for _, k := range required`
CollectMissing(p) ==
    /\ calls[p].pc = "required"
    /\ calls[p].i <= Len(Ranged(calls[p]))
    /\ Goes(p, "required", calls[p].i + 1,
            IF Ranged(calls[p])[calls[p].i] \notin Mine(p).found
            THEN [Mine(p) EXCEPT !.miss = Append(@, Ranged(calls[p])[calls[p].i])]
            ELSE Mine(p))

\* return out, nil (or the panic that ends the call); return miss
ReturnCall(p) ==
    /\ \/ calls[p].pc = "lines"
          /\ (calls[p].i > Len(Ranged(calls[p])) \/ Mine(p).panicked)
       \/ calls[p].pc = "required" /\ calls[p].i > Len(Ranged(calls[p]))
    /\ calls' = [calls EXCEPT ![p].pc = "done",
                              ![p].mixed = @ \/ OthersInFlight(p),
                              ![p].ret = IF calls[p].in.kind = "MissingKeys"
                                         THEN Mine(p).miss
                                         ELSE Returned(Mine(p))]
    /\ UNCHANGED <<heap, parserVars, renderVars, registryVars, chatVars>>

\* the texts and the entity outputs that the calls in flight are given
ConcEntityTexts ==
    {Join(<<SegEntityOk, SegEntityHalf>>, RD), Join(<<SegMissing, SegLanguage4>>, RD),
     SegEntityNegStart}

ConcIntentTexts == {Join(<<SegIntentOk, SegLanguage5>>, RD), SegIntentNull}

ConcInputs ==
    {[kind |-> "ParseEntityOutput", text |-> t] : t \in ConcEntityTexts}
    \cup {[kind |-> "ParseIntentOutput", text |-> t] : t \in ConcIntentTexts}
    \cup {[kind |-> "MissingKeys", out |-> ParseEntityOutput(t).out, required |-> r] :
             t \in ConcEntityTexts, r \in RequiredLists \ {<<>>}}

\* Each goroutine is about to make one call, on an input of its own.
InitConc ==
    /\ calls \in [Procs -> {Entered(x) : x \in ConcInputs}]
    /\ heap = [c \in Cells |-> <<>>]
    /\ raw = <<>> /\ rin = NoInput /\ env = {}
    /\ eres = NotCalled(EmptyEntityOutput)
    /\ ires = NotCalled(EmptyIntentOutput)
    /\ required = <<>>
    /\ miss = NoKeys
    /\ byType = NoSpans
    /\ eagain = NotCalled(EmptyEntityOutput)
    /\ iagain = NotCalled(EmptyIntentOutput)
    /\ rres = NotRendered
    /\ ragain = NotRendered
    /\ lookup = NotLookedUp
    /\ lookupAgain = NotLookedUp
    /\ ChatOff

NextConc ==
    \E p \in Procs :
        \/ EnterCall(p)
        \/ ParseLine(p)
        \/ MarkFound(p)
        \/ EndFound(p)
        \/ CollectMissing(p)
        \/ ReturnCall(p)

SpecConc == InitConc /\ [][NextConc]_vars

(***************************************************************************)
(* The chat loop of main.                                                  *)
(*                                                                         *)
(* The loop is at "wait" where it reads a line from standard input, at     *)
(* "invoke" while the model is called, and at "done" once main has         *)
(* returned.  invokes counts the calls of the model.  turn records the     *)
(* history and the count as they were when the loop last read a line, and  *)
(* what the turn came to.                                                  *)
(***************************************************************************)
\* A turn is taken while the history has fewer than MaxHistory messages and
\* the model has been called fewer than MaxInvokes times.
MaxHistory == 5
MaxInvokes == 3

\* schema.SystemMessage, schema.UserMessage, and the message of the model
SystemMessage(content) == [Role |-> "system", Content |-> content]
UserMessage(content) == [Role |-> "user", Content |-> content]
AssistantMessage(content) == [Role |-> "assistant", Content |-> content]

\* the failure path that leaves the history as it is
DropLastKept(h) == h

\* history[:len(history)-1]
DropLast(h) == SubSeq(h, 1, Len(h) - 1)

\* the system prompts that loadSystemPrompt returns: trimmed, not empty
PromptBrief == <<"B", "e", " ", "b", "r", "i", "e", "f", ".">>
PromptShop == <<"Y", "o", "u", " ", "s", "e", "l", "l", " ", "s", "h", "o", "e", "s", ".", "\n", "A", "s", "k", " ", "t", "h", "e", " ", "s", "i", "z", "e", ".">>
SystemPrompts == {PromptBrief, PromptShop}

\* the lines that reader.ReadString('\n') returns
LineEmpty == <<"\n">>
LineSpaces == <<" ", "\t", "\n">>
LineHi == <<" ", "h", "i", "\n">>
LineShoes == <<"r", "e", "d", " ", "s", "h", "o", "e", "s", "?", "\n">>
LineExit == <<"e", "x", "i", "t", "\n">>
LineExitPadded == <<" ", "e", "x", "i", "t", " ", "\n">>
Lines == {LineEmpty, LineSpaces, LineHi, LineShoes, LineExit, LineExitPadded}

\* the messages that chatRunnable.Invoke returns with a nil error
Replies == {AssistantMessage(<<"o", "k">>), AssistantMessage(<<>>)}

\* the loop reads a line in the state it is in
Reading(event) ==
    turn' = [before |-> history, invokes |-> invokes, event |-> event]

\* line, readErr := reader.ReadString('\n') with readErr != nil: main returns
ReadFails ==
    /\ loopPc = "wait"
    /\ loopPc' = "done"
    /\ Reading("read error")
    /\ UNCHANGED <<systemPrompt, history, input, invokes>>
    /\ UNCHANGED <<parserVars, renderVars, registryVars, concVars>>

\* a line that is empty after strings.TrimSpace: continue
SkipBlankLine(line) ==
    /\ loopPc = "wait"
    /\ TrimSpace(line) = <<>>
    /\ Reading("blank")
    /\ UNCHANGED <<systemPrompt, history, loopPc, input, invokes>>
    /\ UNCHANGED <<parserVars, renderVars, registryVars, concVars>>

\* the line "exit": break
ExitTyped(line) ==
    /\ loopPc = "wait"
    /\ TrimSpace(line) = <<"e", "x", "i", "t">>
    /\ loopPc' = "done"
    /\ Reading("exit")
    /\ UNCHANGED <<systemPrompt, history, input, invokes>>
    /\ UNCHANGED <<parserVars, renderVars, registryVars, concVars>>

\* any other line: the user message is appended, the history is copied and
\* the model is called on the copy
AppendUserMessage(line) ==
    /\ loopPc = "wait"
    /\ TrimSpace(line) # <<>>
    /\ TrimSpace(line) # <<"e", "x", "i", "t">>
    /\ Len(history) < MaxHistory /\ invokes < MaxInvokes
    /\ history' = Append(history, UserMessage(TrimSpace(line)))
    /\ input' = Append(history, UserMessage(TrimSpace(line)))
    /\ invokes' = invokes + 1
    /\ loopPc' = "invoke"
    /\ Reading("asked")
    /\ UNCHANGED systemPrompt
    /\ UNCHANGED <<parserVars, renderVars, registryVars, concVars>>

\* out, invokeErr := chatRunnable.Invoke(ctx, input) with invokeErr != nil
InvokeFails ==
    /\ loopPc = "invoke"
    /\ history' = DropLast(history)
    /\ turn' = [turn EXCEPT !.event = "failed"]
    /\ loopPc' = "wait"
    /\ UNCHANGED <<systemPrompt, input, invokes>>
    /\ UNCHANGED <<parserVars, renderVars, registryVars, concVars>>

\* the model replies: history = append(history, out)
InvokeReturns(out) ==
    /\ loopPc = "invoke"
    /\ history' = Append(history, out)
    /\ turn' = [turn EXCEPT !.event = "replied"]
    /\ loopPc' = "wait"
    /\ UNCHANGED <<systemPrompt, input, invokes>>
    /\ UNCHANGED <<parserVars, renderVars, registryVars, concVars>>

\* history := []*schema.Message{schema.SystemMessage(systemPrompt)}, and the
\* loop is about to read its first line
InitChat ==
    /\ systemPrompt \in SystemPrompts
    /\ history = <<SystemMessage(systemPrompt)>>
    /\ loopPc = "wait"
    /\ input = <<>>
    /\ invokes = 0
    /\ turn = NoTurn
    /\ raw = <<>> /\ rin = NoInput /\ env = {}
    /\ eres = NotCalled(EmptyEntityOutput)
    /\ ires = NotCalled(EmptyIntentOutput)
    /\ required = <<>>
    /\ miss = NoKeys
    /\ byType = NoSpans
    /\ eagain = NotCalled(EmptyEntityOutput)
    /\ iagain = NotCalled(EmptyIntentOutput)
    /\ rres = NotRendered
    /\ ragain = NotRendered
    /\ lookup = NotLookedUp
    /\ lookupAgain = NotLookedUp
    /\ calls = <<>>
    /\ heap = <<>>

NextChat ==
    \/ ReadFails
    \/ \E line \in Lines : SkipBlankLine(line)
    \/ \E line \in Lines : ExitTyped(line)
    \/ \E line \in Lines : AppendUserMessage(line)
    \/ InvokeFails
    \/ \E out \in Replies : InvokeReturns(out)

SpecChat == InitChat /\ [][NextChat]_vars

(***************************************************************************)
(* Properties.                                                             *)
(***************************************************************************)
Range(seq) == {seq[i] : i \in 1..Len(seq)}

Count(seq, x) == Cardinality({i \in 1..Len(seq) : seq[i] = x})

RECURSIVE IsSubseq(_, _)
\* a is b with some of its elements left out
IsSubseq(a, b) ==
    IF Len(a) = 0 THEN TRUE
    ELSE IF Len(b) = 0 THEN FALSE
    ELSE IF Head(a) = Head(b) THEN IsSubseq(Tail(a), Tail(b))
    ELSE IsSubseq(a, Tail(b))

\* the records of a text: the fields of each "##"-separated segment, trimmed
RecordsOf(text) ==
    LET segs == Split(text, RD)
    IN  [i \in 1..Len(segs) |-> Split(TrimSpace(segs[i]), TD)]

\* the positions of the records that p holds of, in input order
Positions(recs, p(_)) ==
    LET idx == {i \in 1..Len(recs) : p(recs[i])}
        nth[k \in 1..Cardinality(idx)] ==
            CHOOSE i \in idx : Cardinality({j \in idx : j < i}) = k - 1
    IN  nth

\* the text with its i-th segment, and one separator, taken out
WithoutSegment(text, i) ==
    LET segs == Split(text, RD)
    IN  Join(SubSeq(segs, 1, i - 1) \o SubSeq(segs, i + 1, Len(segs)), RD)

Half == [num |-> 5, scale |-> 1]

\* C1: a required key is in the result of MissingKeys if and only if no
\* entity of that type has Confidence > 0.5 and Start >= 0; a confidence of
\* exactly 0.5, or a negative Start, does not fill the slot.
C1_MissingIffUnsatisfied ==
    miss.called =>
        \A k \in Range(required) :
            k \in Range(miss.keys) <=>
                ~\E i \in 1..Len(eres.out.Entities) :
                    LET e == eres.out.Entities[i]
                    IN  /\ e.Type = k
                        /\ 2 * e.Confidence.num > Pow10(e.Confidence.scale)
                        /\ e.Start >= 0

\* a key is reported missing although entities of its type were parsed, one
\* with confidence exactly 0.5 or a negative start, while another key is filled
C1_Witness ==
    /\ miss.called
    /\ \E i \in 1..Len(eres.out.Entities) :
          LET e == eres.out.Entities[i]
          IN  /\ e.Type \in Range(miss.keys)
              /\ e.Confidence = Half \/ (e.Start < 0 /\ e.Confidence.num > 5)
    /\ \E k \in Range(required) : k \notin Range(miss.keys)

\* C2: the result of MissingKeys is a subsequence of required: same relative
\* order, never sorted, and an unsatisfied key occurs as often as in required.
C2_MissingIsSubsequence ==
    miss.called =>
        /\ IsSubseq(miss.keys, required)
        /\ \A k \in Range(required) :
              Count(miss.keys, k) \in {0, Count(required, k)}

\* a repeated key is missing twice, in an order that is not sorted, while
\* another key is left out
C2_Witness ==
    /\ miss.called
    /\ Count(miss.keys, KPrice) = 2
    /\ miss.keys = <<KPrice, KColor, KPrice>>
    /\ Len(required) = 4

\* C3: for every raw text both parsers return, with a non-nil output and a
\* nil error; no text makes them abort.
C3_ParsersNeverFail ==
    /\ eres.called => ~eres.panicked /\ ~eres.isNil /\ eres.err = "nil"
    /\ ires.called => ~ires.panicked /\ ~ires.isNil /\ ires.err = "nil"

\* both parsers have returned on a text with an (entity record that a garbled
\* delimiter leaves with 5 fields
C3_Witness ==
    /\ eres.called /\ ires.called
    /\ \E i \in 1..Len(RecordsOf(raw)) :
          LET f == RecordsOf(raw)[i]
          IN  HasPrefix(f[1], TagEntity) /\ Len(f) = 5

\* both parsers have returned on a text with an (intent record of 4 fields
C3_WitnessIntent ==
    /\ eres.called /\ ires.called
    /\ \E i \in 1..Len(RecordsOf(raw)) :
          LET f == RecordsOf(raw)[i]
          IN  f[1] = TagIntent /\ Len(f) = 4

\* both parsers have returned on the empty text
C3_WitnessEmpty == eres.called /\ ires.called /\ raw = <<>>

\* the kinds of record of the entity grammar
IsEntityRecord(f) == HasPrefix(f[1], TagEntity)
IsMissingRecord(f) == HasPrefix(f[1], TagMissing)
IsLanguageRecord(f) == HasPrefix(f[1], TagLanguage)
AcceptedEntity(f) == IsEntityRecord(f) /\ Len(f) >= 6
ShortEntity(f) == IsEntityRecord(f) /\ Len(f) < 6
AcceptedMissing(f) == IsMissingRecord(f) /\ Len(f) >= 2
AcceptedLanguage(f) == IsLanguageRecord(f) /\ Len(f) >= 4

\* the kinds of record of the intent grammar
AcceptedIntent(f) == f[1] = TagIntent /\ Len(f) >= 5
AcceptedIntentLanguage(f) == f[1] = TagLanguage /\ Len(f) >= 5

\* a record that is neither skipped as blank or as the sentinel nor carries
\* a tag the grammar knows
IsRecord(f) == f # <<<<>>>> /\ f # <<CD>>
UnknownToEntity(f) ==
    IsRecord(f) /\ ~IsEntityRecord(f) /\ ~IsMissingRecord(f) /\ ~IsLanguageRecord(f)
UnknownToIntent(f) ==
    IsRecord(f) /\ f[1] # TagIntent /\ f[1] # TagLanguage

\* C4: an (entity record of fewer than 6 fields contributes nothing: there are
\* as many entities as (entity records of at least 6 fields, and the output
\* is the one of the text without the short record (Missing and Language
\* included).
C4_ShortEntityDropped ==
    eres.called =>
        LET recs == RecordsOf(raw)
        IN  /\ Len(eres.out.Entities) =
                   Cardinality({i \in 1..Len(recs) : AcceptedEntity(recs[i])})
            /\ \A i \in 1..Len(recs) :
                  ShortEntity(recs[i]) =>
                      LET o == ParseEntityOutput(WithoutSegment(raw, i)).out
                      IN  /\ o.Missing = eres.out.Missing
                          /\ o.Language = eres.out.Language
                          /\ o.Entities = eres.out.Entities

\* a text with a short (entity record of at least 3 fields beside a record
\* that was taken
C4_Witness ==
    /\ eres.called
    /\ \E i \in 1..Len(RecordsOf(raw)) :
          ShortEntity(RecordsOf(raw)[i]) /\ Len(RecordsOf(raw)[i]) >= 3
    /\ \/ Len(eres.out.Entities) = 1
       \/ Len(eres.out.Missing) = 1
       \/ eres.out.Language # <<>>

\* C5: in both parsers a record with an unknown tag is skipped and leaves the
\* other records alone: the output is the one of the text without it.
C5_UnknownTagSkipped ==
    LET recs == RecordsOf(raw)
    IN  /\ eres.called =>
              \A i \in 1..Len(recs) :
                  UnknownToEntity(recs[i]) =>
                      ParseEntityOutput(WithoutSegment(raw, i)).out = eres.out
        /\ ires.called =>
              \A i \in 1..Len(recs) :
                  UnknownToIntent(recs[i]) =>
                      ParseIntentOutput(WithoutSegment(raw, i)).out = ires.out

\* a record unknown to both grammars, of enough fields for either, comes
\* before a record that both parsers take
C5_Witness ==
    /\ eres.called /\ ires.called
    /\ LET recs == RecordsOf(raw)
       IN  /\ Len(recs) = 2
           /\ UnknownToEntity(recs[1]) /\ UnknownToIntent(recs[1])
           /\ Len(recs[1]) >= 3
    /\ eres.out.Language # <<>>
    /\ Len(ires.out.Languages) = 1

\* C6: the outputs are in input order: the k-th entity (intent, language) is
\* the one of the k-th accepted record of its kind, none twice, none lost.
C6_OutputInInputOrder ==
    LET recs == RecordsOf(raw)
        ent  == Positions(recs, AcceptedEntity)
        int  == Positions(recs, AcceptedIntent)
        lang == Positions(recs, AcceptedIntentLanguage)
    IN  /\ eres.called =>
              /\ Len(eres.out.Entities) = Len(ent)
              /\ \A k \in 1..Len(ent) :
                    /\ eres.out.Entities[k].Type = recs[ent[k]][2]
                    /\ eres.out.Entities[k].Raw = recs[ent[k]][3]
        /\ ires.called =>
              /\ Len(ires.out.Intents) = Len(int)
              /\ \A k \in 1..Len(int) : ires.out.Intents[k].Name = recs[int[k]][2]
              /\ Len(ires.out.Languages) = Len(lang)
              /\ \A k \in 1..Len(lang) : ires.out.Languages[k].Code = recs[lang[k]][2]

\* two accepted records of different content, in the order of the text
C6_Witness ==
    /\ eres.called
    /\ Len(eres.out.Entities) = 2
    /\ eres.out.Entities[1].Type # eres.out.Entities[2].Type
    /\ eres.out.Entities[1].Type = RecordsOf(raw)[1][2]

\* the same for the intent parser
C6_WitnessIntent ==
    /\ ires.called
    /\ Len(ires.out.Intents) = 2
    /\ ires.out.Intents[1].Name # ires.out.Intents[2].Name
    /\ ires.out.Intents[1].Name = RecordsOf(raw)[1][2]

\* C7: in ParseIntentOutput a record gives an IntentResult exactly when its tag
\* is (intent and it has at least 5 fields, a LanguageResult exactly when its
\* tag is (language and it has at least 5 fields; the name or code is the
\* field after the tag, and a record of fewer than 5 fields gives nothing.
C7_IntentRecordShapes ==
    ires.called =>
        LET recs  == RecordsOf(raw)
            names == SelectSeq(recs, LAMBDA f : f[1] = TagIntent /\ Len(f) >= 5)
            codes == SelectSeq(recs, LAMBDA f : f[1] = TagLanguage /\ Len(f) >= 5)
        IN  /\ [k \in 1..Len(ires.out.Intents) |-> ires.out.Intents[k].Name]
                  = [k \in 1..Len(names) |-> names[k][2]]
            /\ [k \in 1..Len(ires.out.Languages) |-> ires.out.Languages[k].Code]
                  = [k \in 1..Len(codes) |-> codes[k][2]]
            /\ (\A i \in 1..Len(recs) : Len(recs[i]) < 5) =>
                  ires.out = EmptyIntentOutput

\* a 5-field record whose tag only starts with (intent, or a 4-field (intent
\* record, beside a record that gave a result
C7_Witness ==
    /\ ires.called
    /\ Len(ires.out.Intents) + Len(ires.out.Languages) = 1
    /\ LET recs == RecordsOf(raw)
       IN  /\ Len(recs) = 2
           /\ \E i \in 1..2 :
                 /\ HasPrefix(recs[i][1], TagIntent)
                 /\ recs[i][1] # TagIntent
                 /\ Len(recs[i]) >= 5

\* C8: in ParseEntityOutput a (language record is taken only with at least 4
\* fields; Language is the field after the tag of the last such record, and
\* the empty string when there is none.
C8_LanguageLastAccepted ==
    eres.called =>
        LET recs == RecordsOf(raw)
            lang == SelectSeq(recs, AcceptedLanguage)
        IN  eres.out.Language =
                IF Len(lang) = 0 THEN <<>> ELSE lang[Len(lang)][2]

\* two accepted (language records with different codes
C8_Witness ==
    /\ eres.called
    /\ LET recs == RecordsOf(raw)
       IN  /\ Len(recs) = 2
           /\ AcceptedLanguage(recs[1]) /\ AcceptedLanguage(recs[2])
           /\ recs[1][2] # recs[2][2]
           /\ eres.out.Language = recs[2][2]

\* C9: Missing is, in input order, the second field of every (missing record
\* of at least 2 fields; a (missing record of the tag alone appends nothing.
C9_MissingSelfReported ==
    eres.called =>
        LET recs == RecordsOf(raw)
            ms   == SelectSeq(recs, AcceptedMissing)
        IN  eres.out.Missing = [k \in 1..Len(ms) |-> ms[k][2]]

\* a (missing record of the tag alone beside one with a key
C9_Witness ==
    /\ eres.called
    /\ eres.out.Missing = <<KBrand>>
    /\ \E i \in 1..Len(RecordsOf(raw)) : RecordsOf(raw)[i] = <<TagMissing>>

\* whether a meta field decodes as a JSON object
DecodesAsObject(field) == JValid(field) /\ field[JSkip(field, 1)] = "{"

\* C10: in ParseIntentOutput, when the meta field of an accepted record does
\* not decode as a JSON object (invalid JSON, a value that is no object, or
\* null), the record is emitted with an empty, non-nil Meta and no error.
C10_MetaEmptyOnFailure ==
    ires.called =>
        LET recs == RecordsOf(raw)
            int  == Positions(recs, AcceptedIntent)
            lang == Positions(recs, AcceptedIntentLanguage)
        IN  /\ ires.err = "nil"
            /\ Len(ires.out.Intents) = Len(int)
            /\ Len(ires.out.Languages) = Len(lang)
            /\ \A k \in 1..Len(int) :
                  ~DecodesAsObject(recs[int[k]][5]) => ires.out.Intents[k].Meta = MakeMap
            /\ \A k \in 1..Len(lang) :
                  ~DecodesAsObject(recs[lang[k]][5]) => ires.out.Languages[k].Meta = MakeMap

\* a string that is empty once its whitespace is trimmed
Blank(s) == TrimSpace(s) = <<>>

\* a list with no entry left once its entries are trimmed
BlankList(l) == \A i \in 1..Len(l) : Blank(l[i])

\* a required context value of the render input is empty after trimming
EmptyContextValue ==
    \/ /\ rin.kind = "entity" /\ ~rin.in.isNil
       /\ \/ Blank(rin.in.IntentName)
          \/ BlankList(rin.in.RequiredKeys)
          \/ BlankList(rin.in.AllowedEntities)
          \/ Blank(rin.in.UserMessage)
          \/ Blank(rin.in.Language)
    \/ /\ rin.kind = "intent" /\ ~rin.in.isNil
       /\ Blank(rin.in.IntentList)

\* C11: rendering the entity prompt or the intent prompt fails with an error
\* and returns no prompt text whenever a required context value (intent name,
\* required keys, allowed entities, user message, language; the intent list)
\* is empty after trimming.
C11_EmptyValueFailsRender ==
    rres.called /\ EmptyContextValue => rres.err # "nil" /\ rres.text = <<>>

\* C12: every render operation (renderSystemPrompt, RenderEntitySystem) either
\* fails with an error or returns a text without the literal "{{": a template
\* or a substituted value that leaves "{{" behind makes rendering fail.
C12_NoResidualPlaceholder ==
    /\ rres.called /\ rin.kind \in {"persona", "entity"} =>
          rres.err # "nil" \/ ~Contains(rres.text, Unresolved)
    /\ ragain.called => ragain.err # "nil" \/ ~Contains(ragain.text, Unresolved)

\* the distinct entries of the caller's AllowedEntities, trimmed
DistinctAllowed == {TrimSpace(e) : e \in Range(rin.in.AllowedEntities)}

\* C13: RenderEntitySystem called twice with the identical input, whose
\* AllowedEntities has at least two distinct entries, substitutes the same
\* comma-separated allowed-entities string both times.
C13_SameAllowedCSVTwice ==
    ragain.called /\ ~rin.in.isNil /\ Cardinality(DistinctAllowed) >= 2 =>
        /\ ragain.allowedCSV = rres.allowedCSV
        /\ rres.err = "nil" /\ ragain.err = "nil" => ragain.text = rres.text

\* csv lists every distinct trimmed entry of the caller's list once and
\* nothing else
ListsEachOnce(csv) ==
    LET items == Split(csv, Comma)
    IN  IF Len(rin.in.AllowedEntities) = 0 THEN csv = <<>>
        ELSE /\ \A e \in DistinctAllowed : Count(items, e) = 1
             /\ \A i \in 1..Len(items) : items[i] \in DistinctAllowed

\* C14: in RenderEntitySystem every distinct (trimmed) allowed entity appears
\* exactly once in the comma-joined allowed-entities string, however often it
\* occurs in the caller's AllowedEntities, and no entity that is not in the
\* list appears; the string is what the template's token is replaced by.
C14_EachAllowedEntityOnce ==
    rres.called /\ rin.kind = "entity" /\ ~rin.in.isNil =>
        /\ ListsEachOnce(rres.allowedCSV)
        /\ ragain.called => ListsEachOnce(ragain.allowedCSV)
        /\ rres.err = "nil" /\ Contains(rin.template, PhAllowedEntitiesCSV) =>
              Contains(rres.text, <<"A", "=">> \o rres.allowedCSV \o <<";">>)

\* the prompt is rendered from a list that names three entities, one of them
\* twice, with and without padding
C14_Witness ==
    /\ rres.called /\ rin.kind = "entity" /\ rres.err = "nil"
    /\ Len(rin.in.AllowedEntities) = 3
    /\ Cardinality(DistinctAllowed) = 2
    /\ KPaddedBrand \in Range(rin.in.AllowedEntities)
    /\ KBrand \in Range(rin.in.AllowedEntities)

\* the normalized form of an intent name: trimmed, each space and hyphen
\* turned into "_", each letter into its capital
Canonical(name) ==
    LET t == TrimSpace(name)
    IN  [i \in 1..Len(t) |-> IF t[i] \in {" ", "-"} THEN "_" ELSE UpperOf(t[i])]

\* the keys configured for a normalized name, in their configured order: the
\* items of the entry between commas, trimmed, the blank ones left out; none
\* when there is no entry
ConfiguredKeys(canon) ==
    LET entries == {p \in env : p[1] = EnvPrefix \o canon}
        items == IF entries = {} THEN <<>>
                 ELSE Split((CHOOSE p \in entries : TRUE)[2], Comma)
        nth == Positions(items, LAMBDA x : ~Blank(x))
    IN  [k \in 1..Len(nth) |-> TrimSpace(items[nth[k]])]

\* C15 as stated: RequiredKeysForIntent(name) returns the keys configured for
\* the normalized name, in their configured order, the empty sequence when
\* there is no entry, and two names with the same normalization yield the
\* same list.
C15_LookupNormalized ==
    /\ lookup.called => lookup.keys = ConfiguredKeys(Canonical(lookup.name))
    /\ lookupAgain.called =>
          /\ lookupAgain.keys = ConfiguredKeys(Canonical(lookupAgain.name))
          /\ Canonical(lookupAgain.name) = Canonical(lookup.name) =>
                lookupAgain.keys = lookup.keys

\* what a lookup of name returns: nothing for the empty name, else the keys
\* configured for the normalized name
KeysFor(name) ==
    IF name = <<>> THEN <<>> ELSE ConfiguredKeys(Canonical(name))

\* C15, amended: the empty name yields the empty sequence without a lookup;
\* every other name yields the keys configured for its normalized name, in
\* their configured order, the empty sequence when there is no entry; two
\* non-empty names with the same normalization yield the same list.
C15_LookupNormalizedNonEmpty ==
    /\ lookup.called => lookup.keys = KeysFor(lookup.name)
    /\ lookupAgain.called =>
          /\ lookupAgain.keys = KeysFor(lookupAgain.name)
          /\ /\ lookup.name # <<>> /\ lookupAgain.name # <<>>
             /\ Canonical(lookupAgain.name) = Canonical(lookup.name)
             => lookupAgain.keys = lookup.keys

\* two different names with one normalization were looked up and gave three
\* keys, one of them twice, from an entry with a blank item
C15_Witness ==
    /\ lookupAgain.called
    /\ lookup.name # lookupAgain.name
    /\ Canonical(lookup.name) = Canonical(lookupAgain.name)
    /\ lookup.keys = <<KPrice, KBrand, KPrice>>
    /\ lookupAgain.keys = lookup.keys
    /\ \E p \in env : Len(Split(p[2], Comma)) = 4

\* C16: EntitiesByType(t) returns exactly the entities of Entities whose Type
\* equals t, in their parse order, an empty but non-absent sequence when there
\* is none, and leaves the EntityOutput as the parser returned it.
C16_EntitiesOfTypeInOrder ==
    byType.called =>
        LET parsed == ParseEntityOutput(raw).out
            nth == Positions(parsed.Entities, LAMBDA e : e.Type = byType.t)
        IN  /\ byType.spans = [k \in 1..Len(nth) |-> parsed.Entities[nth[k]]]
            /\ ~byType.isNil
            /\ eres.out = parsed

\* of two parsed entities the query returns the second and not the first
C16_Witness ==
    /\ byType.called
    /\ Len(eres.out.Entities) = 2
    /\ byType.spans = <<eres.out.Entities[2]>>
    /\ eres.out.Entities[1].Type # byType.t

\* the query finds no entity of the type among the parsed ones
C16_WitnessNone ==
    /\ byType.called
    /\ Len(eres.out.Entities) > 0
    /\ byType.spans = <<>>

\* what a model may report about itself: the keys it holds missing and the
\* language it detected
SelfReports == {<<>>, <<KBrand>>, <<KColor, KPrice>>}
ReportedLanguages == {<<>>, KEng}

\* C17: the result of MissingKeys does not depend on the self-reported Missing
\* (or Language): every EntityOutput with the same Entities yields the same
\* result for the required list, and the call leaves the EntityOutput as the
\* parser returned it.
C17_MissingIgnoresSelfReport ==
    miss.called =>
        /\ \A m \in SelfReports, l \in ReportedLanguages :
              MissingKeys([Entities |-> eres.out.Entities, Missing |-> m,
                           Language |-> l], required) = miss.keys
        /\ eres.out = ParseEntityOutput(raw).out

\* the model reported a key missing that the validator finds filled, and did
\* not report one that the validator finds missing
C17_Witness ==
    /\ miss.called
    /\ \E k \in Range(required) :
          k \in Range(eres.out.Missing) /\ k \notin Range(miss.keys)
    /\ \E k \in Range(miss.keys) : k \notin Range(eres.out.Missing)

Alone(x) ==
    CASE x.kind = "ParseEntityOutput" -> ParseEntityOutput(x.text)
      [] x.kind = "ParseIntentOutput" -> ParseIntentOutput(x.text)
      [] x.kind = "MissingKeys" -> MissingKeys(x.out, x.required)

\* C19: in every interleaving of the steps of the calls in flight
\* (ParseEntityOutput, ParseIntentOutput, MissingKeys, each on an input of
\* its own), a call that has returned has returned what it returns when it
\* runs alone.
C19_ConcurrentCallsDoNotInterfere ==
    \A p \in DOMAIN calls :
        calls[p].pc = "done" => calls[p].ret = Alone(calls[p].in)

\* two calls of the same function have returned, each non-empty, after
\* steps of each were taken while the other was in flight
C19_Witness ==
    \E p, q \in DOMAIN calls :
        /\ p # q
        /\ calls[p].pc = "done" /\ calls[q].pc = "done"
        /\ calls[p].mixed /\ calls[q].mixed
        /\ calls[p].in.kind = "ParseEntityOutput"
        /\ calls[q].in.kind = "ParseEntityOutput"
        /\ calls[p].in # calls[q].in
        /\ Len(calls[p].ret.out.Entities) = 2
        /\ Len(calls[q].ret.out.Entities) = 1

\* the field is an integer of the int: an optional sign and decimal digits,
\* of a value from MinInt to MaxInt
ValidInteger(f) ==
    /\ Len(f) > 0
    /\ \A i \in 2..Len(f) : IsDigit(f[i])
    /\ IsDigit(f[1]) \/ (IsSign(f[1]) /\ Len(f) > 1)
    /\ \/ ~DigitsExceed(Significant(f, IF IsSign(f[1]) THEN 2 ELSE 1, Len(f) + 1),
                        MaxIntDigits)
       \/ /\ f[1] = "-"
          /\ Significant(f, 2, Len(f) + 1) =
                 <<"2", "1", "4", "7", "4", "8", "3", "6", "4", "8">>

\* the value of a valid integer, 0 for every other field
IntegerOrZero(f) ==
    IF ~ValidInteger(f) THEN 0
    ELSE IF f[1] = "-"
         THEN IF DigitsExceed(Significant(f, 2, Len(f) + 1), MaxIntDigits) THEN MinInt
              ELSE 0 - DigitsValue(f, 2, Len(f) + 1, 0)
    ELSE DigitsValue(f, IF IsSign(f[1]) THEN 2 ELSE 1, Len(f) + 1, 0)

\* C20: the Start and the End of the entity of an accepted (entity record are
\* the values of its start and end fields where the field is a valid
\* integer, and 0 where it is anything else: letters, white space around the
\* digits, an empty field, digits too many for the int.
C20_StartEndIntegerOrZero ==
    eres.called =>
        LET recs == RecordsOf(raw)
            ent  == Positions(recs, AcceptedEntity)
        IN  \A k \in 1..Len(ent) :
                k <= Len(eres.out.Entities) =>
                    /\ eres.out.Entities[k].Start = IntegerOrZero(recs[ent[k]][4])
                    /\ eres.out.Entities[k].End = IntegerOrZero(recs[ent[k]][5])

\* the segment is skipped as the sentinel is: nothing is left of it after
\* trimming, or the terminal sentinel is
SentinelSegment(segment) == SkippedLine(TrimSpace(segment))

\* C21: the terminal sentinel does not stop parsing.  A segment that is empty
\* after trimming or is <|COMPLETE|> is skipped alone: each parser returns on
\* the text what it returns on the text without that segment, so the records
\* after it are parsed as if it were absent.
C21_SentinelSkippedAlone ==
    LET segs == Split(raw, RD)
    IN  /\ eres.called =>
              \A i \in 1..Len(segs) :
                  SentinelSegment(segs[i]) =>
                      ParseEntityOutput(WithoutSegment(raw, i)) = eres
        /\ ires.called =>
              \A i \in 1..Len(segs) :
                  SentinelSegment(segs[i]) =>
                      ParseIntentOutput(WithoutSegment(raw, i)) = ires

\* the sentinel comes first and a record that the entity parser takes
\* follows it
C21_Witness ==
    /\ eres.called /\ ires.called
    /\ LET segs == Split(raw, RD)
       IN  Len(segs) = 2 /\ TrimSpace(segs[1]) = CD
    /\ Len(eres.out.Entities) = 1

\* the sentinel comes first and a record that the intent parser takes
\* follows it
C21_WitnessIntent ==
    /\ ires.called
    /\ LET segs == Split(raw, RD)
       IN  Len(segs) = 2 /\ TrimSpace(segs[1]) = CD
    /\ Len(ires.out.Intents) = 1

\* the history is the system message and then complete pairs of a user
\* message and the reply of the model
SystemThenPairs(h) ==
    /\ Len(h) % 2 = 1
    /\ \A k \in 1..(Len(h) \div 2) :
          h[2 * k].Role = "user" /\ h[2 * k + 1].Role = "assistant"

\* C22: whenever the chat loop waits for a line, the history is the system
\* message of the system prompt, at index 0 and as it was made, followed by
\* complete (user message, model reply) pairs; after a turn whose model call
\* failed the history is what it was before the turn; after a blank line
\* the history is what it was and the model has not been called.
C22_HistoryWhileWaiting ==
    loopPc = "wait" =>
        /\ history[1] = SystemMessage(systemPrompt)
        /\ SystemThenPairs(history)
        /\ turn.event = "failed" => history = turn.before
        /\ turn.event = "blank" => history = turn.before /\ invokes = turn.invokes

\* the loop waits after a turn that failed, with a complete pair from an
\* earlier turn in the history
C22_Witness ==
    /\ loopPc = "wait"
    /\ turn.event = "failed"
    /\ Len(history) = 3
    /\ invokes = 2

\* the loop waits after a blank line that came after a reply
C22_WitnessBlank ==
    /\ loopPc = "wait"
    /\ turn.event = "blank"
    /\ Len(history) = 3

\* C23: the outcome of renderSystemPrompt, the rendered text or the error, is
\* the same in every order in which the five replacements are applied,
\* whatever the template and the values, values that hold placeholder text
\* included: what a call returned is what the call returns in any order.
C23_OutcomeInEveryOrder ==
    (rin.kind = "persona" /\ rres.called) =>
        \A visit \in Visits(Placeholders) :
            renderSystemPrompt(rin.template, rin.profiles, visit) = rres

=============================================================================
